---- MODULE Spec2Model ----
(***************************************************************************)
(* A model of the declaration-bundling core of bunup/dts: the token escape *)
(* codec, the dynamic-import expander, the forward transform dtsToFakeJs,  *)
(* the reverse transform fakeJsToDts and the driver generateDts.           *)
(*                                                                         *)
(* Text is a sequence of characters, each character a one-character        *)
(* string; the two private-use code points U+E000 and U+E001 and the grave *)
(* accent are the atoms "U+E000", "U+E001" and "U+0060".                   *)
(***************************************************************************)
EXTENDS Integers, Sequences, FiniteSets, TLC

VARIABLES
    cIn, cEsc, cOut, cPc,     \* escape codec: input, escaped, unescaped, position
    dSrc, dIn, dOut, dPc,     \* expander: input as built, its text, result, position
    body,                     \* dtsToFakeJs: parsed.program.body of the input file
    index,                    \* the index of the statement the loop is at
    referencedNames,          \* the set referencedNames
    exportedNames,            \* the set exportedNames
    result,                   \* the array result: the lines pushed so far
    prepared,                 \* history: the text handed to tokenizeText for each var line
    pc,                       \* idle, parse, loop, done or thrown
    returned,                 \* what the promise resolved to, once it did
    program,                  \* fakeJsToDts: program.body of the bundled fake-JS
    at,                       \* the number of statements the loop has been through
    resultParts,              \* the array resultParts
    rPc,                      \* idle, loop or done
    dts,                      \* what fakeJsToDts resolved to, once it did
    options,                  \* generateDts: the options it was called with
    project,                  \* the file system it runs on and what its tools will do
    tsCompiledDist,           \* the variable tsCompiledDist
    tempDirs,                 \* the directories made by mkdtemp that exist
    made,                     \* the number of calls of mkdtemp so far
    events,                   \* history: the effects so far, in order
    gPc,                      \* the place generateDts is at
    settled,                  \* how the promise of generateDts settled, once it did
    userEntrypoints,          \* the loop over outputs: the argument entrypoints
    outputs,                  \* the outputs of the bundle that are chunks or entry points
    cursor,                   \* the number of outputs the loop has been through
    bundledFiles,             \* the array bundledFiles
    oPc,                      \* idle, loop, returned or thrown
    sources,                  \* the load hook: the files the bundler may load
    calls,                    \* the invocations of the hook so far, each with its position
    collectedErrors,          \* the array collectedErrors
    lastIndex                 \* TOKENIZE_RE.lastIndex

codecVars == <<cIn, cEsc, cOut, cPc>>
dynVars == <<dSrc, dIn, dOut, dPc>>
fwdVars == <<body, index, referencedNames, exportedNames, result, prepared, pc, returned>>
revVars == <<program, at, resultParts, rPc, dts>>
drvVars == <<options, project, tsCompiledDist, tempDirs, made, events, gPc, settled>>
outVars == <<userEntrypoints, outputs, cursor, bundledFiles, oPc>>
loadVars == <<sources, calls, collectedErrors, lastIndex>>
vars == <<codecVars, dynVars, fwdVars, revVars, drvVars, outVars, loadVars>>

\* A part of the program that takes no part in a specification stays idle.
CodecIdle == cIn = <<>> /\ cEsc = <<>> /\ cOut = <<>> /\ cPc = "idle"

NotReturned == [settled |-> FALSE, lines |-> <<>>]

FwdIdle ==
    /\ body = <<>> /\ index = 0 /\ referencedNames = {} /\ exportedNames = {}
    /\ result = <<>> /\ prepared = <<>> /\ pc = "idle" /\ returned = NotReturned

NotResolved == [settled |-> FALSE, parts |-> <<>>]

RevIdle ==
    /\ program = <<>> /\ at = 0 /\ resultParts = <<>> /\ rPc = "idle"
    /\ dts = NotResolved

\* undefined, where a value is the sequence of one item
Undefined == <<>>
Pending == [state |-> "pending", error |-> ""]

DrvIdle ==
    /\ options = [inferTypes |-> FALSE, tsgo |-> FALSE] /\ project = <<>>
    /\ tsCompiledDist = Undefined /\ tempDirs = {} /\ made = 0
    /\ events = <<>> /\ gPc = "idle" /\ settled = Pending

OutIdle ==
    /\ userEntrypoints = <<>> /\ outputs = <<>> /\ cursor = 0
    /\ bundledFiles = <<>> /\ oPc = "idle"

LoadIdle == sources = <<>> /\ calls = <<>> /\ collectedErrors = <<>> /\ lastIndex = 0

----------------------------------------------------------------------------
(* Strings *)

RECURSIVE Flatten(_)
Flatten(ss) == IF ss = <<>> THEN <<>> ELSE Head(ss) \o Flatten(Tail(ss))

StartsWith(s, p) == Len(s) >= Len(p) /\ SubSeq(s, 1, Len(p)) = p

EndsWith(s, p) == Len(s) >= Len(p) /\ SubSeq(s, Len(s) - Len(p) + 1, Len(s)) = p

DropFirst(s, n) == SubSeq(s, n + 1, Len(s))

Contains(s, p) == \E i \in 1..(Len(s) - Len(p) + 1) : SubSeq(s, i, i + Len(p) - 1) = p

HasChar(s, c) == \E i \in 1..Len(s) : s[i] = c

\* String.prototype.replace(/pat/g, rep) for a literal pattern: leftmost,
\* non-overlapping occurrences, scanned once from left to right.
RECURSIVE ReplaceAll(_, _, _)
ReplaceAll(s, pat, rep) ==
    IF Len(s) < Len(pat) \/ pat = <<>> THEN s
    ELSE IF StartsWith(s, pat) THEN rep \o ReplaceAll(DropFirst(s, Len(pat)), pat, rep)
    ELSE <<Head(s)>> \o ReplaceAll(Tail(s), pat, rep)

----------------------------------------------------------------------------
(* Token escape codec: src/src/fake/utils.ts *)

PUA0 == "U+E000"
PUA1 == "U+E001"
NL == "\n"
TB == "\t"

MARKERS_NEWLINE == <<PUA0, "_", "N", "L", "_", PUA0>>
MARKERS_TAB == <<PUA1, "_", "T", "B", "_", PUA1>>

escapeOnlyNewlines(text) == ReplaceAll(text, <<NL>>, MARKERS_NEWLINE)

escapeNewlinesAndTabs(text) ==
    ReplaceAll(ReplaceAll(text, <<NL>>, MARKERS_NEWLINE), <<TB>>, MARKERS_TAB)

unescapeOnlyNewlines(text) == ReplaceAll(text, MARKERS_NEWLINE, <<NL>>)

unescapeNewlinesAndTabs(text) ==
    ReplaceAll(ReplaceAll(text, MARKERS_NEWLINE, <<NL>>), MARKERS_TAB, <<TB>>)

\* JSON.stringify of a string: quotes around it, the quote, the backslash and
\* the control characters written as escapes.
RECURSIVE JsonEscape(_)
JsonEscape(s) ==
    IF s = <<>> THEN <<>>
    ELSE (CASE Head(s) = "\"" -> <<"\\", "\"">>
            [] Head(s) = "\\" -> <<"\\", "\\">>
            [] Head(s) = NL -> <<"\\", "n">>
            [] Head(s) = TB -> <<"\\", "t">>
            [] OTHER -> <<Head(s)>>) \o JsonEscape(Tail(s))

JsonStringify(s) == <<"\"">> \o JsonEscape(s) \o <<"\"">>

\* The value the parser gives a double-quoted string literal.
RECURSIVE JsonUnescape(_)
JsonUnescape(s) ==
    IF s = <<>> THEN <<>>
    ELSE IF Head(s) = "\\" /\ Len(s) >= 2
         THEN (CASE s[2] = "n" -> <<NL>>
                 [] s[2] = "t" -> <<TB>>
                 [] OTHER -> <<s[2]>>) \o JsonUnescape(DropFirst(s, 2))
         ELSE <<Head(s)>> \o JsonUnescape(Tail(s))

StringLiteralValue(lit) == JsonUnescape(SubSeq(lit, 2, Len(lit) - 1))

\* tokenizeText, the string branch: the token is escaped, then quoted.
StringToken(token) == JsonStringify(escapeNewlinesAndTabs(token))

----------------------------------------------------------------------------
(* Characters *)

LowerSeq ==
    <<"a", "b", "c", "d", "e", "f", "g", "h", "i", "j", "k", "l", "m",
      "n", "o", "p", "q", "r", "s", "t", "u", "v", "w", "x", "y", "z">>
UpperSeq ==
    <<"A", "B", "C", "D", "E", "F", "G", "H", "I", "J", "K", "L", "M",
      "N", "O", "P", "Q", "R", "S", "T", "U", "V", "W", "X", "Y", "Z">>
DigitSeq == <<"0", "1", "2", "3", "4", "5", "6", "7", "8", "9">>

Range(seq) == { seq[i] : i \in 1..Len(seq) }
IndexOf(seq, c) == CHOOSE i \in 1..Len(seq) : seq[i] = c

Lower == Range(LowerSeq)
Upper == Range(UpperSeq)
Digit == Range(DigitSeq)

IsIdentStart(c) == c \in Lower \cup Upper \cup {"_", "$"}      \* [a-zA-Z_$]
IsIdentPart(c) == IsIdentStart(c) \/ c \in Digit                 \* [a-zA-Z0-9_$]
IsSpace(c) == c \in {" ", NL, TB, "\r"}                          \* \s
IsLineTerminator(c) == c \in {NL, "\r"}                          \* what . does not match
BackTick == "U+0060"                                             \* the grave accent
Quotes == {"'", "\"", BackTick}                                  \* the three quote characters

\* /^[a-zA-Z_$][a-zA-Z0-9_$]*$/.test(s)
IsIdentifier(s) ==
    /\ s # <<>>
    /\ IsIdentStart(s[1])
    /\ \A i \in 2..Len(s) : IsIdentPart(s[i])

\* The length of the longest prefix of s matching [a-zA-Z0-9_$]*.
RECURSIVE IdentRun(_)
IdentRun(s) == IF s = <<>> \/ ~IsIdentPart(Head(s)) THEN 0 ELSE 1 + IdentRun(Tail(s))

\* The length of the longest prefix of s matching \s*.
RECURSIVE SpaceRun(_)
SpaceRun(s) == IF s = <<>> \/ ~IsSpace(Head(s)) THEN 0 ELSE 1 + SpaceRun(Tail(s))

NoLineTerminator(s) == \A i \in 1..Len(s) : ~IsLineTerminator(s[i])

\* String.prototype.charCodeAt for the characters of the model.
CharCode(c) ==
    CASE c \in Lower -> 96 + IndexOf(LowerSeq, c)
      [] c \in Upper -> 64 + IndexOf(UpperSeq, c)
      [] c \in Digit -> 47 + IndexOf(DigitSeq, c)
      [] c = " " -> 32
      [] c = "\"" -> 34
      [] c = "$" -> 36
      [] c = "'" -> 39
      [] c = "-" -> 45
      [] c = "." -> 46
      [] c = "/" -> 47
      [] c = ":" -> 58
      [] c = "[" -> 91
      [] c = "]" -> 93
      [] c = "_" -> 95
      [] c = BackTick -> 96
      [] OTHER -> 63

----------------------------------------------------------------------------
(* generateFixedStringFromString: src/src/fake/utils.ts *)

\* A 32-bit value is kept as its two 16-bit halves <<hi, lo>>, so that no
\* intermediate product leaves the range of the checker's integers.
Half == 65536

\* (hash << 5) - hash + char, then hash & hash: 31 * hash + char modulo 2^32.
HashStep(h, char) ==
    LET lo == 31 * h[2] + char
        hi == 31 * h[1] + (lo \div Half)
    IN  <<hi % Half, lo % Half>>

RECURSIVE HashOf(_, _)
HashOf(h, str) ==
    IF str = <<>> THEN h ELSE HashOf(HashStep(h, CharCode(Head(str))), Tail(str))

\* Math.abs of the signed 32-bit value of h, as halves (2^31 is <<32768, 0>>).
AbsInt32(h) ==
    IF h[1] < 32768 THEN h
    ELSE IF h[2] = 0 THEN <<Half - h[1], 0>>
    ELSE <<Half - 1 - h[1], Half - h[2]>>

Base36Digits == DigitSeq \o LowerSeq

\* Number.prototype.toString(36) of a non-negative value given as halves.
RECURSIVE ToBase36(_)
ToBase36(a) ==
    LET mid == (a[1] % 36) * Half + a[2]
        q == <<a[1] \div 36, mid \div 36>>
        d == <<Base36Digits[(mid % 36) + 1]>>
    IN  IF q = <<0, 0>> THEN d ELSE ToBase36(q) \o d

generateFixedStringFromString(str) == ToBase36(AbsInt32(HashOf(<<0, 0>>, str)))

----------------------------------------------------------------------------
(* The lexical rules and helpers the source imports from ./re and ../utils  *)

IsSpaceUnit(u) == u # <<>> /\ \A i \in 1..Len(u) : IsSpace(u[i])

\* TOKENIZE_RE: a word, a JSDoc block, a line comment, a quoted string, a
\* template literal, a dynamic type import or a single punctuation
\* character; white space between them matches nothing.
Tokenize(text) == SelectSeq(text, LAMBDA u : ~IsSpaceUnit(u))

\* CAPITAL_LETTER_RE.test(token): the token starts as an identifier does and
\* holds a capital letter.
CAPITAL_LETTER_RE(token) ==
    /\ token # <<>>
    /\ IsIdentStart(token[1])
    /\ \E i \in 1..Len(token) : token[i] \in Upper

\* generateVarName(index): the positional name var<index>.
RECURSIVE Decimal(_)
Decimal(n) ==
    IF n < 10 THEN <<DigitSeq[n + 1]>> ELSE Decimal(n \div 10) \o <<DigitSeq[(n % 10) + 1]>>

generateVarName(i) == <<"v", "a", "r">> \o Decimal(i)

\* generateRandomString(): any of these.
RandomStrings == { <<"k", "3", "x">>, <<"q", "9", "z">> }

----------------------------------------------------------------------------
(* The dynamic-import expander: src/src/fake/utils.ts *)

Min(S) == CHOOSE x \in S : \A y \in S : x <= y

S_import == <<"i", "m", "p", "o", "r", "t">>
S_importParen == <<"i", "m", "p", "o", "r", "t", "(">>
S_import_ == <<"i", "m", "p", "o", "r", "t", "_">>
S_importStarAs == <<"i", "m", "p", "o", "r", "t", " ", "*", " ", "a", "s", " ">>
S_importBrace == <<"i", "m", "p", "o", "r", "t", " ", "{", " ">>
S_as == <<" ", "a", "s", " ">>
S_from == <<" ", "f", "r", "o", "m", " ", "'">>
S_braceFrom == <<" ", "}", " ", "f", "r", "o", "m", " ", "'">>
S_quoteSemi == <<"'", ";">>
S_newlineVar == <<"\n", "v", "a", "r", " ">>
S_eq == <<" ", "=", " ">>
S_semi == <<";">>
S_value == <<"v", "a", "l", "u", "e">>
S__value == <<"_", "v", "a", "l", "u", "e">>

\* Whether s matches (?:\.[a-zA-Z_$][a-zA-Z0-9_$]*|\[(Q).+?\4\])*$ where Q
\* is the class of the three quote characters.
RECURSIVE IsAccessChain(_)
IsAccessChain(s) ==
    \/ s = <<>>
    \/ /\ Len(s) >= 2 /\ s[1] = "." /\ IsIdentStart(s[2])
       /\ IsAccessChain(DropFirst(s, 1 + IdentRun(Tail(s))))
    \/ /\ Len(s) >= 5 /\ s[1] = "[" /\ s[2] \in Quotes
       /\ \E j \in 4..(Len(s) - 1) :
            /\ s[j] = s[2] /\ s[j + 1] = "]"
            /\ NoLineTerminator(SubSeq(s, 3, j - 1))
            /\ IsAccessChain(DropFirst(s, j + 1))

\* The pattern without its tail: /^import\s*\(\s*(Q)(.+?)\1/
ImportMatchPrefix(dynamicImport) ==
    LET a == DropFirst(dynamicImport, Len(S_import))
        b == DropFirst(a, SpaceRun(a))
        c == IF b = <<>> THEN <<>> ELSE DropFirst(Tail(b), SpaceRun(Tail(b)))
        ks == { k \in 3..Len(c) : c[k] = c[1] }
    IN  IF /\ StartsWith(dynamicImport, S_import)
           /\ b # <<>> /\ Head(b) = "("
           /\ c # <<>> /\ Head(c) \in Quotes
           /\ ks # {}
        THEN [ok |-> TRUE,
              modulePath |-> SubSeq(c, 2, Min(ks) - 1),
              propertyAccess |-> <<>>]
        ELSE [ok |-> FALSE, modulePath |-> <<>>, propertyAccess |-> <<>>]

\* dynamicImport.match(/^import\s*\(\s*(Q)(.+?)\1\s*\)(ACCESS*)$/): the lazy
\* module path ends at the first closing quote after which the rest matches.
ImportMatch(dynamicImport) ==
    LET a == DropFirst(dynamicImport, Len(S_import))
        b == DropFirst(a, SpaceRun(a))
        c == IF b = <<>> THEN <<>> ELSE DropFirst(Tail(b), SpaceRun(Tail(b)))
        After(k) == LET r == DropFirst(c, k) IN DropFirst(r, SpaceRun(r))
        Closes(k) ==
            /\ c[k] = c[1]
            /\ NoLineTerminator(SubSeq(c, 2, k - 1))
            /\ After(k) # <<>> /\ Head(After(k)) = ")"
            /\ IsAccessChain(Tail(After(k)))
        ks == { k \in 3..Len(c) : Closes(k) }
    IN  IF /\ StartsWith(dynamicImport, S_import)
           /\ b # <<>> /\ Head(b) = "("
           /\ c # <<>> /\ Head(c) \in Quotes
           /\ ks # {}
        THEN [ok |-> TRUE,
              modulePath |-> SubSeq(c, 2, Min(ks) - 1),
              propertyAccess |-> Tail(After(Min(ks)))]
        ELSE [ok |-> FALSE, modulePath |-> <<>>, propertyAccess |-> <<>>]

\* extractFirstProperty taking every bracket name for an identifier.
extractFirstPropertyUnchecked(propertyAccess) ==
    LET pa == propertyAccess
        js == { j \in 4..(Len(pa) - 1) :
                  /\ pa[1] = "[" /\ pa[2] \in Quotes
                  /\ pa[j] = pa[2] /\ pa[j + 1] = "]" }
    IN  IF Len(pa) >= 2 /\ pa[1] = "." /\ IsIdentStart(pa[2])
        THEN [threw |-> FALSE,
              name |-> SubSeq(pa, 2, 1 + IdentRun(Tail(pa))),
              accessLength |-> 1 + IdentRun(Tail(pa)),
              isValidIdentifier |-> TRUE]
        ELSE IF js # {}
        THEN [threw |-> FALSE,
              name |-> SubSeq(pa, 3, Min(js) - 1),
              accessLength |-> Min(js) + 1,
              isValidIdentifier |-> TRUE]
        ELSE [threw |-> TRUE, name |-> <<>>, accessLength |-> 0,
              isValidIdentifier |-> FALSE]

extractFirstProperty(propertyAccess) ==
    LET pa == propertyAccess
        js == { j \in 4..(Len(pa) - 1) :
                  /\ pa[1] = "[" /\ pa[2] \in Quotes
                  /\ pa[j] = pa[2] /\ pa[j + 1] = "]"
                  /\ NoLineTerminator(SubSeq(pa, 3, j - 1)) }
    IN  IF Len(pa) >= 2 /\ pa[1] = "." /\ IsIdentStart(pa[2])
        THEN [threw |-> FALSE,
              name |-> SubSeq(pa, 2, 1 + IdentRun(Tail(pa))),
              accessLength |-> 1 + IdentRun(Tail(pa)),
              isValidIdentifier |-> TRUE]
        ELSE IF js # {}
        THEN [threw |-> FALSE,
              name |-> SubSeq(pa, 3, Min(js) - 1),
              accessLength |-> Min(js) + 1,
              isValidIdentifier |-> IsIdentifier(SubSeq(pa, 3, Min(js) - 1))]
        ELSE [threw |-> TRUE, name |-> <<>>, accessLength |-> 0,
              isValidIdentifier |-> FALSE]

\* The bracket pattern is searched from the left and must end the text, so
\* of several bracket accesses it is the first that opens the match.
extractLastProperty(propertyAccess) ==
    LET pa == propertyAccess
        n == Len(pa)
        bs == { i \in 1..(n - 4) :
                  /\ pa[i] = "[" /\ pa[i + 1] \in Quotes
                  /\ pa[n - 1] = pa[i + 1] /\ pa[n] = "]"
                  /\ NoLineTerminator(SubSeq(pa, i + 2, n - 2)) }
        ds == { i \in 1..(n - 1) : pa[i] = "." /\ IsIdentifier(SubSeq(pa, i + 1, n)) }
    IN  IF bs # {} THEN SubSeq(pa, Min(bs) + 2, n - 2)
        ELSE IF ds # {} THEN SubSeq(pa, Min(ds) + 1, n)
        ELSE S_value

createValidIdentifier(name) ==
    LET identifier == [i \in 1..Len(name) |-> IF IsIdentPart(name[i]) THEN name[i] ELSE "_"]
    IN  IF identifier = <<>> THEN S__value
        ELSE IF identifier[1] \in Digit THEN <<"_">> \o identifier
        ELSE identifier

Thrown(message) == [threw |-> TRUE, error |-> message, declarations |-> <<>>, variableName |-> <<>>]
Returned(declarations, variableName) ==
    [threw |-> FALSE, error |-> "", declarations |-> declarations, variableName |-> variableName]

\* The source holds convertDynamicImportToStatic twice, alike but for the
\* suffix of each name: generateFixedStringFromString of the text the name
\* is made from (suffix.hash), or the k-th call of generateRandomString.
HashSuffix == [hash |-> TRUE, random |-> <<>>]
RandomSuffix(random) == [hash |-> FALSE, random |-> random]

SuffixOf(suffix, k, str) ==
    IF suffix.hash THEN generateFixedStringFromString(str) ELSE suffix.random[k]

Expansion(dynamicImport, suffix) ==
    LET importMatch == ImportMatch(dynamicImport)
        modulePath == importMatch.modulePath
        propertyAccess == importMatch.propertyAccess
        importIdentifier == S_import_ \o SuffixOf(suffix, 1, modulePath)
        firstProperty == extractFirstProperty(propertyAccess)
        remainingAccess == DropFirst(propertyAccess, firstProperty.accessLength)
        uniqueName == createValidIdentifier(firstProperty.name) \o <<"_">>
                        \o SuffixOf(suffix, 1, firstProperty.name)
        importNamed == S_importBrace \o firstProperty.name \o S_as \o uniqueName
                         \o S_braceFrom \o modulePath \o S_quoteSemi
        importStar == S_importStarAs \o importIdentifier \o S_from \o modulePath
                        \o S_quoteSemi
        VarName(lastProperty) ==
            createValidIdentifier(lastProperty) \o <<"_">>
                \o SuffixOf(suffix, 2, lastProperty)
        restName == VarName(extractLastProperty(remainingAccess))
        wholeName == VarName(extractLastProperty(propertyAccess))
    IN  IF ~importMatch.ok THEN Thrown("Invalid dynamic import format")
        ELSE IF propertyAccess = <<>> THEN Returned(importStar, importIdentifier)
        ELSE IF firstProperty.threw THEN Thrown("Invalid property access")
        ELSE IF firstProperty.isValidIdentifier
        THEN IF remainingAccess # <<>>
             THEN Returned(importNamed \o S_newlineVar \o restName \o S_eq
                             \o uniqueName \o remainingAccess \o S_semi,
                           restName)
             ELSE Returned(importNamed, uniqueName)
        ELSE Returned(importStar \o S_newlineVar \o wholeName \o S_eq
                        \o importIdentifier \o propertyAccess \o S_semi,
                      wholeName)

\* src/src/fake/utils.ts: every suffix is generateFixedStringFromString of
\* the module path or of the property name.
convertDynamicImportToStatic(dynamicImport) == Expansion(dynamicImport, HashSuffix)

----------------------------------------------------------------------------
(* Syntactic helpers over top-level statements: src/unnamed/part_003        *)
(*                                                                          *)
(* A statement is the node the parser gives, with the fields the code       *)
(* reads, and its text statement.start..statement.end. Text is kept as the  *)
(* sequence of its lexical units, the way TOKENIZE_RE cuts it, with each    *)
(* run of white space between them a unit of its own.                       *)

W_export == <<"e", "x", "p", "o", "r", "t">>
W_default == <<"d", "e", "f", "a", "u", "l", "t">>
W_function == <<"f", "u", "n", "c", "t", "i", "o", "n">>
W_class == <<"c", "l", "a", "s", "s">>
W_extends == <<"e", "x", "t", "e", "n", "d", "s">>
W_implements == <<"i", "m", "p", "l", "e", "m", "e", "n", "t", "s">>
W_type == <<"t", "y", "p", "e">>
W_import == <<"i", "m", "p", "o", "r", "t">>
W_var == <<"v", "a", "r">>
W_exportDefault == <<"e", "x", "p", "o", "r", "t", " ", "d", "e", "f", "a", "u", "l", "t">>
W_blockOpen == <<"/", "*">>
W_blockClose == <<"*", "/">>
W_lineOpen == <<"/", "/">>

NoId == <<>>
NoDeclaration == [type |-> "null", id |-> NoId, declarators |-> 0]

\* text.trim(), as characters
TrimStart(chars) == DropFirst(chars, SpaceRun(chars))

isImportDeclaration(node) == node.type = "ImportDeclaration"
isExportAllDeclaration(node) == node.type = "ExportAllDeclaration"
isReExportStatement(node) ==
    node.type = "ExportNamedDeclaration" /\ node.declaration = NoDeclaration
\* isSideEffectImport with the test on the specifiers the wrong way round.
isSideEffectImportInverted(node) ==
    node.type = "ImportDeclaration" /\ Len(node.specifiers) # 0

isSideEffectImport(node) ==
    node.type = "ImportDeclaration" /\ Len(node.specifiers) = 0

ExportTypes == {"ExportAllDeclaration", "ExportNamedDeclaration", "ExportDefaultDeclaration"}

hasExportModifier(node, text) ==
    node.type \in ExportTypes \/ StartsWith(TrimStart(Flatten(text)), W_export)

hasDefaultExportModifier(node, text) ==
    \/ node.type = "ExportDefaultDeclaration"
    \/ StartsWith(TrimStart(Flatten(text)), W_exportDefault)

\* isDefaultReExport looking for the identifier under a named export.
isDefaultReExportOfNamed(node) ==
    node.type = "ExportNamedDeclaration" /\ node.declaration.type = "Identifier"

isDefaultReExport(node) ==
    node.type = "ExportDefaultDeclaration" /\ node.declaration.type = "Identifier"

isUnnamedDefaultExport(node) ==
    /\ node.type = "ExportDefaultDeclaration"
    /\ node.declaration # NoDeclaration
    /\ \/ /\ node.declaration.type \in {"FunctionDeclaration", "TSDeclareFunction"}
          /\ node.declaration.id = NoId
       \/ node.declaration.type = "ClassDeclaration" /\ node.declaration.id = NoId

\* The units of text from position i on, white space skipped.
SkipSpace(text, i) == IF i <= Len(text) /\ IsSpaceUnit(text[i]) THEN i + 1 ELSE i

\* Where /export\s+default\s+KEYWORD\s*/ matches from unit i on, the index of
\* the unit after the match; 0 where it does not match.
AfterExportDefault(text, i, keyword) ==
    IF /\ i + 4 <= Len(text)
       /\ text[i] = W_export /\ IsSpaceUnit(text[i + 1])
       /\ text[i + 2] = W_default /\ IsSpaceUnit(text[i + 3])
       /\ text[i + 4] = keyword
    THEN SkipSpace(text, i + 5)
    ELSE 0

FollowsFunction(u) == u \in {<<"(">>, <<"<">>}
FollowsClass(u) == u = <<"{">> \/ StartsWith(u, W_extends) \/ StartsWith(u, W_implements)

\* functionPattern = /export\s+default\s+function\s*([(<])/
functionPattern(text) ==
    { i \in 1..Len(text) :
        LET j == AfterExportDefault(text, i, W_function)
        IN  j # 0 /\ j <= Len(text) /\ FollowsFunction(text[j]) }

\* classPattern = /export\s+default\s+class\s*([{]|extends|implements)/
classPattern(text) ==
    { i \in 1..Len(text) :
        LET j == AfterExportDefault(text, i, W_class)
        IN  j # 0 /\ j <= Len(text) /\ FollowsClass(text[j]) }

\* text.replace(pattern, replacement): units before the match, the
\* replacement, the captured unit and what follows it.
Spliced(text, i, j, replacement) ==
    SubSeq(text, 1, i - 1) \o replacement \o SubSeq(text, j, Len(text))

assignNameToUnnamedDefaultExport(text, varName) ==
    LET fs == functionPattern(text)
        cs == classPattern(text)
    IN  IF fs # {}
        THEN Spliced(text, Min(fs), AfterExportDefault(text, Min(fs), W_function),
                     <<W_export, <<" ">>, W_default, <<" ">>, W_function, <<" ">>, varName>>)
        ELSE IF cs # {}
        THEN Spliced(text, Min(cs), AfterExportDefault(text, Min(cs), W_class),
                     <<W_export, <<" ">>, W_default, <<" ">>, W_class, <<" ">>, varName, <<" ">>>>)
        ELSE text

RECURSIVE getName(_)
getName(node) ==
    IF node.type = "ExportNamedDeclaration" /\ node.declaration # NoDeclaration
    THEN getName(node.declaration)
    ELSE IF node.type = "ExportDefaultDeclaration" /\ node.declaration # NoDeclaration
    THEN IF node.declaration.type = "Identifier"
         THEN node.declaration.id
         ELSE getName(node.declaration)
    ELSE IF node.type \in {"TSInterfaceDeclaration", "TSTypeAliasDeclaration",
                           "ClassDeclaration", "TSEnumDeclaration",
                           "FunctionDeclaration", "TSDeclareFunction",
                           "TSModuleDeclaration"}
    THEN node.id
    ELSE IF node.type = "VariableDeclaration" /\ node.declarators = 1
    THEN node.id
    ELSE NoId

CommentUnit(comment) ==
    IF comment.type = "CommentBlock"
    THEN W_blockOpen \o comment.value \o W_blockClose
    ELSE W_lineOpen \o comment.value

\* comments.map(...).join('\n'), as units
RECURSIVE getCommentText(_)
getCommentText(comments) ==
    IF comments = <<>> THEN <<>>
    ELSE IF Len(comments) = 1 THEN <<CommentUnit(comments[1])>>
    ELSE <<CommentUnit(comments[1]), <<NL>>>> \o getCommentText(Tail(comments))

RECURSIVE getAllImportNames(_)
getAllImportNames(statements) ==
    IF statements = <<>> THEN {}
    ELSE (IF isImportDeclaration(Head(statements))
          THEN Range(Head(statements).specifiers) ELSE {})
         \cup getAllImportNames(Tail(statements))

isLikelyVariableOrTypeName(token) ==
    /\ CAPITAL_LETTER_RE(token)
    /\ ~StartsWith(token, <<"/", "*">>)
    /\ ~StartsWith(token, <<"@">>)
    /\ ~StartsWith(token, <<"\"">>)
    /\ ~StartsWith(token, <<"'">>)
    /\ ~StartsWith(token, <<BackTick>>)

----------------------------------------------------------------------------
(* The expander on its own: import( quote module quote ) access* *)

MaxAccess == 2

Access(kind, name, text) == [kind |-> kind, name |-> name, text |-> text]

\* The accesses a dynamic type import is built from: .name, a bracket with an
\* identifier, a bracket with other text, and three that are no access.
AccessPieces ==
    { Access("dot", <<"U", "s", "e", "r">>, <<".", "U", "s", "e", "r">>),
      Access("dot", <<"x">>, <<".", "x">>),
      Access("bracket", <<"p">>, <<"[", "'", "p", "'", "]">>),
      Access("bracket", <<"a", "-", "b">>, <<"[", "\"", "a", "-", "b", "\"", "]">>),
      Access("bad", <<>>, <<"[", "0", "]">>),
      Access("bad", <<>>, <<".", "9">>),
      Access("bad", <<>>, <<"[", "'", "p", "\"", "]">>) }

ModulePaths == { <<"m">>, <<".", "/", "a">>, <<>> }

DynSources ==
    [ open : {"'", "\""}, module : ModulePaths, close : {"'", "\""},
      space : BOOLEAN,
      accesses : UNION { [1..n -> AccessPieces] : n \in 0..MaxAccess } ]

Pad(src) == IF src.space THEN <<" ">> ELSE <<>>

Surface(src) ==
    S_importParen \o Pad(src) \o <<src.open>> \o src.module \o <<src.close>>
      \o Pad(src) \o <<")">> \o Flatten([i \in 1..Len(src.accesses) |-> src.accesses[i].text])

\* An input built with matching quotes around a module path and from accesses
\* alone: import('M')<access*>.
WellFormed(src) ==
    /\ src.open = src.close
    /\ src.module # <<>>
    /\ \A i \in 1..Len(src.accesses) : src.accesses[i].kind # "bad"

\* ACCESS ::= .IdentHead | [QUOTE anything QUOTE]
IsAccess(a) ==
    \/ Len(a) >= 2 /\ a[1] = "." /\ IsIdentifier(Tail(a))
    \/ /\ Len(a) >= 5 /\ a[1] = "[" /\ a[2] \in Quotes
       /\ a[Len(a) - 1] = a[2] /\ a[Len(a)] = "]"
       /\ NoLineTerminator(SubSeq(a, 3, Len(a) - 2))

RECURSIVE IsAccesses(_)
IsAccesses(s) ==
    \/ s = <<>>
    \/ \E n \in 1..Len(s) : IsAccess(SubSeq(s, 1, n)) /\ IsAccesses(DropFirst(s, n))

\* The grammar import ( QUOTE SPEC QUOTE ) ACCESS* as a set of texts: some
\* cut of the text into its parts fits.
InGrammar(text) ==
    \E open, close \in 1..Len(text) :
        /\ open + 1 < close
        /\ text[open] \in Quotes /\ text[close] = text[open]
        /\ NoLineTerminator(SubSeq(text, open + 1, close - 1))
        /\ \E paren \in 1..(open - 1), end \in (close + 1)..Len(text) :
              /\ StartsWith(text, S_import)
              /\ paren > Len(S_import) /\ text[paren] = "(" /\ text[end] = ")"
              /\ \A i \in ((Len(S_import) + 1)..(paren - 1)) \cup ((paren + 1)..(open - 1))
                        \cup ((close + 1)..(end - 1)) : IsSpace(text[i])
              /\ IsAccesses(DropFirst(text, end))

NoSource == [open |-> "'", module |-> <<>>, close |-> "'", space |-> FALSE, accesses |-> <<>>]

DynIdle == dSrc = NoSource /\ dIn = <<>> /\ dOut = Returned(<<>>, <<>>) /\ dPc = "idle"

DynInit ==
    /\ dSrc \in DynSources
    /\ dIn = Surface(dSrc)
    /\ dOut = Returned(<<>>, <<>>)
    /\ dPc = "in"
    /\ CodecIdle /\ FwdIdle /\ RevIdle /\ DrvIdle /\ OutIdle /\ LoadIdle

Expand ==
    /\ dPc = "in"
    /\ dOut' = convertDynamicImportToStatic(dIn)
    /\ dPc' = IF dOut'.threw THEN "threw" ELSE "done"
    /\ UNCHANGED <<dSrc, dIn, codecVars, fwdVars, revVars, drvVars,
                   outVars, loadVars>>

DynNext == Expand

SpecExpander == DynInit /\ [][DynNext]_vars

RestText(src) == Flatten([i \in 1..(Len(src.accesses) - 1) |-> src.accesses[i + 1].text])
ChainText(src) == Flatten([i \in 1..Len(src.accesses) |-> src.accesses[i].text])

ImportStarText(ns, module) == S_importStarAs \o ns \o S_from \o module \o S_quoteSemi
ImportNamedText(name, n, module) ==
    S_importBrace \o name \o S_as \o n \o S_braceFrom \o module \o S_quoteSemi
VarText(v, n, access) == S_newlineVar \o v \o S_eq \o n \o access \o S_semi

\* The identifiers that may stand in declarations right after prefix.
NamesAfter(prefix, declarations) ==
    { SubSeq(declarations, Len(prefix) + 1, j) : j \in (Len(prefix) + 1)..Len(declarations) }

FirstIsIdentifier(src) ==
    src.accesses[1].kind \in {"dot", "bracket"} /\ IsIdentifier(src.accesses[1].name)

\* C9: for an accepted import('M')<access*>: (a) without an access the
\* expander emits an import * as NS from 'M'; and yields NS; (b) with a first
\* access .name or ['name'], name an identifier, it emits
\* import { name as N } from 'M'; and yields N, or with further accesses also
\* var V = N<rest>; and yields V; (c) with a first bracket of other text it
\* emits import * as NS from 'M'; and var V = NS<the whole chain>; and yields
\* V. What it yields is an identifier the declarations bind.
C9_ExpanderCases ==
    (dPc = "done" /\ WellFormed(dSrc)) =>
        LET M == dSrc.module
            decl == dOut.declarations
            y == dOut.variableName
        IN  /\ IsIdentifier(y)
            /\ IF dSrc.accesses = <<>>
               THEN decl = ImportStarText(y, M)
               ELSE IF FirstIsIdentifier(dSrc)
               THEN IF Len(dSrc.accesses) = 1
                    THEN decl = ImportNamedText(dSrc.accesses[1].name, y, M)
                    ELSE \E n \in NamesAfter(S_importBrace \o dSrc.accesses[1].name \o S_as, decl) :
                            /\ IsIdentifier(n)
                            /\ decl = ImportNamedText(dSrc.accesses[1].name, n, M)
                                        \o VarText(y, n, RestText(dSrc))
               ELSE \E ns \in NamesAfter(S_importStarAs, decl) :
                        /\ IsIdentifier(ns)
                        /\ decl = ImportStarText(ns, M) \o VarText(y, ns, ChainText(dSrc))

C9_Witness ==
    /\ dPc = "done" /\ WellFormed(dSrc)
    /\ Len(dSrc.accesses) = 2
    /\ dSrc.accesses[1].kind = "bracket" /\ ~IsIdentifier(dSrc.accesses[1].name)
    /\ dSrc.accesses[2].kind = "dot"
    /\ Contains(dOut.declarations, S_newlineVar \o dOut.variableName \o S_eq)

\* The expander accepts the texts of the grammar and no others, and every
\* well-formed input is one of them.
DynAcceptsExactlyTheGrammar ==
    /\ dPc \in {"done", "threw"} => (dPc = "done" <=> InGrammar(dIn))
    /\ WellFormed(dSrc) => InGrammar(dIn)

----------------------------------------------------------------------------
(* The codec on its own: strings made of up to MaxPieces pieces *)

MaxPieces == 3

CodecPieces ==
    { <<NL>>, <<TB>>, <<"a">>, <<"\"">>, <<PUA0>>, <<PUA1>>,
      <<"_", "N", "L", "_">>, <<"_", "T", "B", "_">> }

CodecInputs ==
    UNION { { Flatten(f) : f \in [1..n -> CodecPieces] } : n \in 0..MaxPieces }

CodecInit ==
    /\ cIn \in CodecInputs
    /\ cEsc = <<>>
    /\ cOut = <<>>
    /\ cPc = "in"
    /\ DynIdle /\ FwdIdle /\ RevIdle /\ DrvIdle /\ OutIdle /\ LoadIdle

CodecEscape ==
    /\ cPc = "in"
    /\ cEsc' = escapeNewlinesAndTabs(cIn)
    /\ cPc' = "escaped"
    /\ UNCHANGED <<cIn, cOut, dynVars, fwdVars, revVars, drvVars,
                   outVars, loadVars>>

CodecUnescape ==
    /\ cPc = "escaped"
    /\ cOut' = unescapeNewlinesAndTabs(cEsc)
    /\ cPc' = "done"
    /\ UNCHANGED <<cIn, cEsc, dynVars, fwdVars, revVars, drvVars,
                   outVars, loadVars>>

CodecNext == CodecEscape \/ CodecUnescape

SpecCodec == CodecInit /\ [][CodecNext]_vars

HasMarker(s) == Contains(s, MARKERS_NEWLINE) \/ Contains(s, MARKERS_TAB)

MarkerHead(m) == SubSeq(m, 1, Len(m) - 1)

Ambiguous(s) ==
    \/ HasMarker(s)
    \/ Contains(s, MarkerHead(MARKERS_NEWLINE) \o <<NL>>)
    \/ Contains(s, MarkerHead(MARKERS_TAB) \o <<TB>>)

C3_EscapedHasNoNewlineOrTab ==
    cPc \in {"escaped", "done"} =>
        /\ ~HasChar(cEsc, NL) /\ ~HasChar(cEsc, TB)
        /\ ~HasChar(StringToken(cIn), NL) /\ ~HasChar(StringToken(cIn), TB)

C3_Witness ==
    /\ cPc = "escaped"
    /\ HasChar(cIn, NL) /\ HasChar(cIn, TB)
    /\ ~HasChar(cEsc, NL) /\ ~HasChar(cEsc, TB)

----------------------------------------------------------------------------
(* The forward transform dtsToFakeJs: src/src/fake/dts-to-fake-js.ts *)

IsCommentUnit(u) == StartsWith(u, W_blockOpen) \/ StartsWith(u, W_lineOpen)

\* The index of the first unit that is neither white space nor a comment:
\* where the statement itself begins in a text with its comments attached.
RECURSIVE StatementStart(_, _)
StatementStart(text, i) ==
    IF i <= Len(text) /\ (IsSpaceUnit(text[i]) \/ IsCommentUnit(text[i]))
    THEN StatementStart(text, i + 1)
    ELSE i

\* text.replace(EXPORT_DEFAULT_RE, ''): a leading export default prefix on
\* the statement text is stripped.
StripExportDefault(text) ==
    LET i == StatementStart(text, 1)
    IN  IF /\ i + 3 <= Len(text)
           /\ text[i] = W_export /\ IsSpaceUnit(text[i + 1])
           /\ text[i + 2] = W_default /\ IsSpaceUnit(text[i + 3])
        THEN SubSeq(text, 1, i - 1) \o DropFirst(text, i + 3)
        ELSE text

\* text.replace(EXPORT_RE, ''): a leading export prefix is stripped.
StripExport(text) ==
    LET i == StatementStart(text, 1)
    IN  IF i + 1 <= Len(text) /\ text[i] = W_export /\ IsSpaceUnit(text[i + 1])
        THEN SubSeq(text, 1, i - 1) \o DropFirst(text, i + 1)
        ELSE text

\* removeExportSyntaxes with no replacement made.
ExportSyntaxesKept(text) == text

removeExportSyntaxes(text) == StripExport(StripExportDefault(text))

\* IMPORT_TYPE_RE, EXPORT_TYPE_RE: a leading import type / export type
\* loses the word type.
StripTypeOnly(text) ==
    IF /\ Len(text) >= 4
       /\ text[1] \in {W_import, W_export} /\ IsSpaceUnit(text[2])
       /\ text[3] = W_type /\ IsSpaceUnit(text[4])
    THEN SubSeq(text, 1, 2) \o DropFirst(text, 4)
    ELSE text

\* IMPORT_EXPORT_NAMES_RE, IMPORT_EXPORT_WITH_DEFAULT_RE with TYPE_WORD_RE:
\* inside the braces of the specifier list each type modifier goes.
RECURSIVE StripTypeWords(_, _)
StripTypeWords(text, inBraces) ==
    IF text = <<>> THEN <<>>
    ELSE IF Head(text) = <<"{">> THEN <<Head(text)>> \o StripTypeWords(Tail(text), TRUE)
    ELSE IF Head(text) = <<"}">> THEN <<Head(text)>> \o StripTypeWords(Tail(text), FALSE)
    ELSE IF inBraces /\ Head(text) = W_type /\ Len(text) >= 2 /\ IsSpaceUnit(text[2])
    THEN StripTypeWords(DropFirst(text, 2), TRUE)
    ELSE <<Head(text)>> \o StripTypeWords(Tail(text), inBraces)

jsifyImportExport(text) == StripTypeWords(StripTypeOnly(text), FALSE)

TokenizeThrew == [threw |-> TRUE, tokens |-> <<>>, extras |-> <<>>]

\* extras.push(staticImport.declarations); tokens.push(staticImport.variableName)
PushImport(staticImport, rest) ==
    IF staticImport.threw \/ rest.threw THEN TokenizeThrew
    ELSE [threw |-> FALSE,
          tokens |-> <<staticImport.variableName>> \o rest.tokens,
          extras |-> <<staticImport.declarations>> \o rest.extras]

\* PushToken without the test: every token pushed as it is.
PushTokenBare(token, names, rest) ==
    IF rest.threw THEN TokenizeThrew
    ELSE [threw |-> FALSE, tokens |-> <<token>> \o rest.tokens, extras |-> rest.extras]

\* tokens.push(token) or tokens.push(JSON.stringify(escapeNewlinesAndTabs(token)))
PushToken(token, names, rest) ==
    IF rest.threw THEN TokenizeThrew
    ELSE [threw |-> FALSE,
          tokens |-> << IF isLikelyVariableOrTypeName(token) \/ token \in names
                        THEN token
                        ELSE StringToken(token) >> \o rest.tokens,
          extras |-> rest.extras]

\* The loop of tokenizeText over the matches; random[k] holds what the calls
\* of generateRandomString return for the k-th dynamic import of the text.
RECURSIVE TokenizeMatches(_, _, _, _)
TokenizeMatches(matches, names, random, k) ==
    IF matches = <<>> THEN [threw |-> FALSE, tokens |-> <<>>, extras |-> <<>>]
    ELSE IF StartsWith(Head(matches), S_importParen)
    THEN PushImport(Expansion(Head(matches), RandomSuffix(random[k])),
                    TokenizeMatches(Tail(matches), names, random, k + 1))
    ELSE PushToken(Head(matches), names,
                   TokenizeMatches(Tail(matches), names, random, k))

\* TOKENIZE_RE.exec(text) from the cursor of the module-level regex on; the
\* cursor counts the matches passed, and beyond the end nothing matches.
ExecFrom(matches, last) == DropFirst(matches, last)

\* tokenizeText without the assignment to lastIndex.
LastIndexKept(last) == last

\* TOKENIZE_RE.lastIndex = 0
LastIndexReset(last) == 0

tokenizeText(text, names, random, last) ==
    TokenizeMatches(ExecFrom(Tokenize(text), LastIndexReset(last)), names, random, 1)

----------------------------------------------------------------------------
(* processTokenArray of the reverse transform: src/src/fake/fake-js-to-dts.ts *)

\* An element of the array literal as the parser reads it: text in double
\* quotes is a StringLiteral, anything else here an Identifier.
IsStringLiteral(element) == element # <<>> /\ Head(element) = "\""

\* Text between grave accents is a TemplateLiteral.
IsTemplateLiteral(element) == element # <<>> /\ Head(element) = BackTick

AppendToLast(quasis, chars) ==
    [quasis EXCEPT ![Len(quasis)] = @ \o chars]

\* The end of the expression that opens the text: the place of its brace.
RECURSIVE ClosingBrace(_, _)
ClosingBrace(s, i) ==
    IF i > Len(s) \/ s[i] = "}" THEN i ELSE ClosingBrace(s, i + 1)

\* element.quasis and element.expressions as the parser gives them for the
\* text between the accents: value.raw of a quasi is its source text, the
\* escapes as written; an expression here is an Identifier, by its name.
RECURSIVE TemplateScan(_, _, _)
TemplateScan(s, quasis, expressions) ==
    IF s = <<>> THEN [quasis |-> quasis, expressions |-> expressions]
    ELSE IF s[1] = "\\" /\ Len(s) >= 2
    THEN TemplateScan(DropFirst(s, 2), AppendToLast(quasis, SubSeq(s, 1, 2)), expressions)
    ELSE IF Len(s) >= 2 /\ s[1] = "$" /\ s[2] = "{"
    THEN TemplateScan(DropFirst(s, ClosingBrace(s, 3)), Append(quasis, <<>>),
                      Append(expressions, SubSeq(s, 3, ClosingBrace(s, 3) - 1)))
    ELSE TemplateScan(Tail(s), AppendToLast(quasis, <<s[1]>>), expressions)

TemplateLiteral(element) ==
    TemplateScan(SubSeq(element, 2, Len(element) - 1), << <<>> >>, <<>>)

\* value.cooked of a quasi: the text its source stands for
RECURSIVE Cooked(_)
Cooked(raw) ==
    IF raw = <<>> THEN <<>>
    ELSE IF raw[1] = "\\" /\ Len(raw) >= 2
    THEN << IF raw[2] = "n" THEN NL ELSE IF raw[2] = "t" THEN "\t" ELSE raw[2] >>
            \o Cooked(DropFirst(raw, 2))
    ELSE <<raw[1]>> \o Cooked(Tail(raw))

\* the loop over element.expressions
RECURSIVE TemplateRest(_, _, _)
TemplateRest(quasis, expressions, i) ==
    IF i > Len(expressions) THEN <<>>
    ELSE (expressions[i] \o unescapeNewlinesAndTabs(quasis[i + 1]))
            \o TemplateRest(quasis, expressions, i + 1)

\* parts.join('') of the TemplateLiteral branch
TemplateText(template) ==
    unescapeNewlinesAndTabs(template.quasis[1])
        \o TemplateRest(template.quasis, template.expressions, 1)

\* processTokenElement without unescapeNewlinesAndTabs.
processTokenElementRaw(element) ==
    IF IsStringLiteral(element) THEN StringLiteralValue(element) ELSE element

processTokenElement(element) ==
    IF IsStringLiteral(element)
    THEN unescapeNewlinesAndTabs(StringLiteralValue(element))
    ELSE IF IsTemplateLiteral(element)
    THEN TemplateText(TemplateLiteral(element))
    ELSE element

processTokenArray(elements) ==
    Flatten([i \in 1..Len(elements) |-> processTokenElement(elements[i])])

----------------------------------------------------------------------------
(* One iteration of the loop of dtsToFakeJs *)

Line(kind, name, text, tokens) ==
    [kind |-> kind, name |-> name, text |-> text, tokens |-> tokens]

\* result.push(...): each line by what it is and the parts it is built from
ExportDefaultLine(jsVarName) == Line("exportDefault", jsVarName, <<>>, <<>>)
ImportExportLine(text) == Line("importExport", NoId, text, <<>>)
ExtraLine(declarations) == Line("extra", NoId, declarations, <<>>)
VarLine(jsVarName, tokens) == Line("var", jsVarName, <<>>, tokens)
ExportLine(jsVarName) == Line("export", jsVarName, <<>>, <<>>)

ExtraLines(extras) == [i \in 1..Len(extras) |-> ExtraLine(extras[i])]

\* ExportsNow without the look into exportedNames.
ExportsEveryTime(isExported, isDefaultExport, exported, jsVarName) ==
    isExported /\ ~isDefaultExport

\* the condition under which export { jsVarName }; is pushed
ExportsNow(isExported, isDefaultExport, exported, jsVarName) ==
    isExported /\ ~isDefaultExport /\ jsVarName \notin exported

Continue(names, exported, lines) ==
    [threw |-> FALSE, tokenised |-> FALSE, text |-> <<>>,
     referencedNames |-> names, exportedNames |-> exported, result |-> lines]

\* From the call of tokenizeText to the end of the loop body.
Tokenised(tokenized, text, names, exported, lines, jsVarName, exports) ==
    IF tokenized.threw
    THEN [threw |-> TRUE, tokenised |-> TRUE, text |-> text,
          referencedNames |-> names, exportedNames |-> exported, result |-> lines]
    ELSE [threw |-> FALSE, tokenised |-> TRUE, text |-> text,
          referencedNames |-> names,
          exportedNames |-> IF exports THEN exported \cup {jsVarName} ELSE exported,
          result |-> ((lines \o ExtraLines(tokenized.extras))
                        \o <<VarLine(jsVarName, tokenized.tokens)>>)
                        \o (IF exports THEN <<ExportLine(jsVarName)>> ELSE <<>>)]

\* The declaration-bearing statement: comments attached, export syntax
\* removed, tokenised.
Declare(statement, statementText, leadingComment, isExported, isDefaultExport, names, exported, lines, jsVarName, random, last) ==
    LET attached == (IF leadingComment # <<>>
                     THEN leadingComment \o << <<NL>> >>
                     ELSE <<>>) \o statementText
        statementTextWithCommentsAttached ==
            IF isExported THEN removeExportSyntaxes(attached) ELSE attached
    IN  Tokenised(tokenizeText(statementTextWithCommentsAttached, names, random, last),
                  statementTextWithCommentsAttached, names, exported, lines, jsVarName,
                  ExportsNow(isExported, isDefaultExport, exported, jsVarName))

\* After the early export of a default export.
Dispatch(statement, statementText, isDefaultExport, names, exported, lines, jsVarName, random, last) ==
    IF isDefaultExport /\ isDefaultReExport(statement)
    THEN Continue(names, exported, lines)
    ELSE IF \/ isImportDeclaration(statement)
            \/ isExportAllDeclaration(statement)
            \/ isReExportStatement(statement)
    THEN IF isSideEffectImport(statement)
         THEN Continue(names, exported, lines)
         ELSE Continue(names, exported,
                       Append(lines, ImportExportLine(jsifyImportExport(statementText))))
    ELSE Declare(statement, statementText, getCommentText(statement.leadingComments),
                 hasExportModifier(statement, statementText), isDefaultExport,
                 names, exported, lines, jsVarName, random, last)

\* The statement is named, and an unnamed default export is given its name.
Named(statement, name, jsVarName, isDefaultExport, names, exported, lines, random, last) ==
    LET unnamed == isDefaultExport /\ isUnnamedDefaultExport(statement)
    IN  Dispatch(statement,
                 IF unnamed
                 THEN assignNameToUnnamedDefaultExport(statement.text, jsVarName)
                 ELSE statement.text,
                 isDefaultExport,
                 (IF name # NoId THEN names \cup {name} ELSE names)
                    \cup (IF unnamed THEN {jsVarName} ELSE {}),
                 exported,
                 IF isDefaultExport
                 THEN Append(lines, ExportDefaultLine(jsVarName))
                 ELSE lines,
                 jsVarName, random, last)

\* The body of the loop for the statement at index i (from 0), from the
\* sets and the lines as they stand; the parser gives every statement its
\* start and end, so the first test never skips one.
JsVarName(name, i) == IF name # NoId THEN name ELSE generateVarName(i)

Iteration(statement, i, names, exported, lines, random, last) ==
    Named(statement, getName(statement), JsVarName(getName(statement), i),
          hasDefaultExportModifier(statement, statement.text),
          names, exported, lines, random, last)

----------------------------------------------------------------------------
(* Declaration files: statements as the parser gives them *)

Declaration(type, id, declarators) ==
    [type |-> type, id |-> id, declarators |-> declarators]

Node(type, id, declarators, declaration, specifiers, text, leadingComments) ==
    [type |-> type, id |-> id, declarators |-> declarators,
     declaration |-> declaration, specifiers |-> specifiers,
     text |-> text, leadingComments |-> leadingComments]

\*   import './polyfill';
SideEffectImport ==
    Node("ImportDeclaration", NoId, 0, NoDeclaration,
         <<>>,
         << <<"i", "m", "p", "o", "r", "t">>,
           <<" ">>,
           <<"'", ".", "/", "p", "o", "l", "y", "f", "i", "l", "l", "'">>,
           <<";">> >>,
         <<>>)

\*   import type { Foo } from './m';
TypeImport ==
    Node("ImportDeclaration", NoId, 0, NoDeclaration,
         <<<<"F", "o", "o">>>>,
         << <<"i", "m", "p", "o", "r", "t">>,
           <<" ">>,
           <<"t", "y", "p", "e">>,
           <<" ">>,
           <<"{">>,
           <<" ">>,
           <<"F", "o", "o">>,
           <<" ">>,
           <<"}">>,
           <<" ">>,
           <<"f", "r", "o", "m">>,
           <<" ">>,
           <<"'", ".", "/", "m", "'">>,
           <<";">> >>,
         <<>>)

\*   import Def, { type Bar as Baz } from "lib";
MixedImport ==
    Node("ImportDeclaration", NoId, 0, NoDeclaration,
         <<<<"D", "e", "f">>, <<"B", "a", "z">>>>,
         << <<"i", "m", "p", "o", "r", "t">>,
           <<" ">>,
           <<"D", "e", "f">>,
           <<",">>,
           <<" ">>,
           <<"{">>,
           <<" ">>,
           <<"t", "y", "p", "e">>,
           <<" ">>,
           <<"B", "a", "r">>,
           <<" ">>,
           <<"a", "s">>,
           <<" ">>,
           <<"B", "a", "z">>,
           <<" ">>,
           <<"}">>,
           <<" ">>,
           <<"f", "r", "o", "m">>,
           <<" ">>,
           <<"\"", "l", "i", "b", "\"">>,
           <<";">> >>,
         <<>>)

\*   export * from './m';
ExportAll ==
    Node("ExportAllDeclaration", NoId, 0, NoDeclaration,
         <<>>,
         << <<"e", "x", "p", "o", "r", "t">>,
           <<" ">>,
           <<"*">>,
           <<" ">>,
           <<"f", "r", "o", "m">>,
           <<" ">>,
           <<"'", ".", "/", "m", "'">>,
           <<";">> >>,
         <<>>)

\*   export type { Foo } from './m';
ReExport ==
    Node("ExportNamedDeclaration", NoId, 0, NoDeclaration,
         <<<<"F", "o", "o">>>>,
         << <<"e", "x", "p", "o", "r", "t">>,
           <<" ">>,
           <<"t", "y", "p", "e">>,
           <<" ">>,
           <<"{">>,
           <<" ">>,
           <<"F", "o", "o">>,
           <<" ">>,
           <<"}">>,
           <<" ">>,
           <<"f", "r", "o", "m">>,
           <<" ">>,
           <<"'", ".", "/", "m", "'">>,
           <<";">> >>,
         <<>>)

\*   /** A box.
\*   <tab> * @public */
\*   // export it
\*   export interface Box { v: Foo; f: fmt }
ExportedInterface ==
    Node("ExportNamedDeclaration", NoId, 0, Declaration("TSInterfaceDeclaration", <<"B", "o", "x">>, 0),
         <<>>,
         << <<"e", "x", "p", "o", "r", "t">>,
           <<" ">>,
           <<"i", "n", "t", "e", "r", "f", "a", "c", "e">>,
           <<" ">>,
           <<"B", "o", "x">>,
           <<" ">>,
           <<"{">>,
           <<" ">>,
           <<"v">>,
           <<":">>,
           <<" ">>,
           <<"F", "o", "o">>,
           <<";">>,
           <<" ">>,
           <<"f">>,
           <<":">>,
           <<" ">>,
           <<"f", "m", "t">>,
           <<" ">>,
           <<"}">> >>,
         <<[type |-> "CommentBlock", value |-> <<"*", " ", "A", " ", "b", "o", "x", ".", "\n", "\t", " ", "*", " ", "@", "p", "u", "b", "l", "i", "c", " ">>], [type |-> "CommentLine", value |-> <<" ", "e", "x", "p", "o", "r", "t", " ", "i", "t">>]>>)

\*   export declare function fmt(a: string): string;
Overload1 ==
    Node("ExportNamedDeclaration", NoId, 0, Declaration("TSDeclareFunction", <<"f", "m", "t">>, 0),
         <<>>,
         << <<"e", "x", "p", "o", "r", "t">>,
           <<" ">>,
           <<"d", "e", "c", "l", "a", "r", "e">>,
           <<" ">>,
           <<"f", "u", "n", "c", "t", "i", "o", "n">>,
           <<" ">>,
           <<"f", "m", "t">>,
           <<"(">>,
           <<"a">>,
           <<":">>,
           <<" ">>,
           <<"s", "t", "r", "i", "n", "g">>,
           <<")">>,
           <<":">>,
           <<" ">>,
           <<"s", "t", "r", "i", "n", "g">>,
           <<";">> >>,
         <<>>)

\*   export declare function fmt(a: number): string;
Overload2 ==
    Node("ExportNamedDeclaration", NoId, 0, Declaration("TSDeclareFunction", <<"f", "m", "t">>, 0),
         <<>>,
         << <<"e", "x", "p", "o", "r", "t">>,
           <<" ">>,
           <<"d", "e", "c", "l", "a", "r", "e">>,
           <<" ">>,
           <<"f", "u", "n", "c", "t", "i", "o", "n">>,
           <<" ">>,
           <<"f", "m", "t">>,
           <<"(">>,
           <<"a">>,
           <<":">>,
           <<" ">>,
           <<"n", "u", "m", "b", "e", "r">>,
           <<")">>,
           <<":">>,
           <<" ">>,
           <<"s", "t", "r", "i", "n", "g">>,
           <<";">> >>,
         <<>>)

\*   export declare const b: string, c: 'x\'y';
TwoDeclarators ==
    Node("ExportNamedDeclaration", NoId, 0, Declaration("VariableDeclaration", NoId, 2),
         <<>>,
         << <<"e", "x", "p", "o", "r", "t">>,
           <<" ">>,
           <<"d", "e", "c", "l", "a", "r", "e">>,
           <<" ">>,
           <<"c", "o", "n", "s", "t">>,
           <<" ">>,
           <<"b">>,
           <<":">>,
           <<" ">>,
           <<"s", "t", "r", "i", "n", "g">>,
           <<",">>,
           <<" ">>,
           <<"c">>,
           <<":">>,
           <<" ">>,
           <<"'", "x", "\\", "'", "y", "'">>,
           <<";">> >>,
         <<>>)

\*   declare const p: Promise<string>;
PromiseConst ==
    Node("VariableDeclaration", <<"p">>, 1, NoDeclaration,
         <<>>,
         << <<"d", "e", "c", "l", "a", "r", "e">>,
           <<" ">>,
           <<"c", "o", "n", "s", "t">>,
           <<" ">>,
           <<"p">>,
           <<":">>,
           <<" ">>,
           <<"P", "r", "o", "m", "i", "s", "e">>,
           <<"<">>,
           <<"s", "t", "r", "i", "n", "g">>,
           <<">">>,
           <<";">> >>,
         <<>>)

\*   type T = <grave>a
\*   <tab>${Box}<grave> | "q\\";
TemplateType ==
    Node("TSTypeAliasDeclaration", <<"T">>, 0, NoDeclaration,
         <<>>,
         << <<"t", "y", "p", "e">>,
           <<" ">>,
           <<"T">>,
           <<" ">>,
           <<"=">>,
           <<" ">>,
           <<BackTick, "a", "\n", "\t", "$", "{", "B", "o", "x", "}", BackTick>>,
           <<" ">>,
           <<"|">>,
           <<" ">>,
           <<"\"", "q", "\\", "\\", "\"">>,
           <<";">> >>,
         <<>>)

\*   declare const u: import('m').User;
DynamicImportConst ==
    Node("VariableDeclaration", <<"u">>, 1, NoDeclaration,
         <<>>,
         << <<"d", "e", "c", "l", "a", "r", "e">>,
           <<" ">>,
           <<"c", "o", "n", "s", "t">>,
           <<" ">>,
           <<"u">>,
           <<":">>,
           <<" ">>,
           <<"i", "m", "p", "o", "r", "t", "(", "'", "m", "'", ")", ".", "U", "s", "e", "r">>,
           <<";">> >>,
         <<>>)

\*   declare const v: import('m').User;
DynamicImportAgain ==
    Node("VariableDeclaration", <<"v">>, 1, NoDeclaration,
         <<>>,
         << <<"d", "e", "c", "l", "a", "r", "e">>,
           <<" ">>,
           <<"c", "o", "n", "s", "t">>,
           <<" ">>,
           <<"v">>,
           <<":">>,
           <<" ">>,
           <<"i", "m", "p", "o", "r", "t", "(", "'", "m", "'", ")", ".", "U", "s", "e", "r">>,
           <<";">> >>,
         <<>>)

\*   declare const w: import('m')[0];
BadDynamicImportConst ==
    Node("VariableDeclaration", <<"w">>, 1, NoDeclaration,
         <<>>,
         << <<"d", "e", "c", "l", "a", "r", "e">>,
           <<" ">>,
           <<"c", "o", "n", "s", "t">>,
           <<" ">>,
           <<"w">>,
           <<":">>,
           <<" ">>,
           <<"i", "m", "p", "o", "r", "t", "(", "'", "m", "'", ")", "[", "0", "]">>,
           <<";">> >>,
         <<>>)

\*   export default function(): void;
DefaultFunction ==
    Node("ExportDefaultDeclaration", NoId, 0, Declaration("TSDeclareFunction", NoId, 0),
         <<>>,
         << <<"e", "x", "p", "o", "r", "t">>,
           <<" ">>,
           <<"d", "e", "f", "a", "u", "l", "t">>,
           <<" ">>,
           <<"f", "u", "n", "c", "t", "i", "o", "n">>,
           <<"(">>,
           <<")">>,
           <<":">>,
           <<" ">>,
           <<"v", "o", "i", "d">>,
           <<";">> >>,
         <<>>)

\*   export default function <T>(a: T): T;
DefaultGenericFunction ==
    Node("ExportDefaultDeclaration", NoId, 0, Declaration("TSDeclareFunction", NoId, 0),
         <<>>,
         << <<"e", "x", "p", "o", "r", "t">>,
           <<" ">>,
           <<"d", "e", "f", "a", "u", "l", "t">>,
           <<" ">>,
           <<"f", "u", "n", "c", "t", "i", "o", "n">>,
           <<" ">>,
           <<"<">>,
           <<"T">>,
           <<">">>,
           <<"(">>,
           <<"a">>,
           <<":">>,
           <<" ">>,
           <<"T">>,
           <<")">>,
           <<":">>,
           <<" ">>,
           <<"T">>,
           <<";">> >>,
         <<>>)

\*   export default class { }
DefaultClass ==
    Node("ExportDefaultDeclaration", NoId, 0, Declaration("ClassDeclaration", NoId, 0),
         <<>>,
         << <<"e", "x", "p", "o", "r", "t">>,
           <<" ">>,
           <<"d", "e", "f", "a", "u", "l", "t">>,
           <<" ">>,
           <<"c", "l", "a", "s", "s">>,
           <<" ">>,
           <<"{">>,
           <<" ">>,
           <<"}">> >>,
         <<>>)

\*   export default class extends Base { }
DefaultClassExtends ==
    Node("ExportDefaultDeclaration", NoId, 0, Declaration("ClassDeclaration", NoId, 0),
         <<>>,
         << <<"e", "x", "p", "o", "r", "t">>,
           <<" ">>,
           <<"d", "e", "f", "a", "u", "l", "t">>,
           <<" ">>,
           <<"c", "l", "a", "s", "s">>,
           <<" ">>,
           <<"e", "x", "t", "e", "n", "d", "s">>,
           <<" ">>,
           <<"B", "a", "s", "e">>,
           <<" ">>,
           <<"{">>,
           <<" ">>,
           <<"}">> >>,
         <<>>)

\*   export  default
\*   class implements Foo { }
DefaultClassImplements ==
    Node("ExportDefaultDeclaration", NoId, 0, Declaration("ClassDeclaration", NoId, 0),
         <<>>,
         << <<"e", "x", "p", "o", "r", "t">>,
           <<" ", " ">>,
           <<"d", "e", "f", "a", "u", "l", "t">>,
           <<"\n">>,
           <<"c", "l", "a", "s", "s">>,
           <<" ">>,
           <<"i", "m", "p", "l", "e", "m", "e", "n", "t", "s">>,
           <<" ">>,
           <<"F", "o", "o">>,
           <<" ">>,
           <<"{">>,
           <<" ">>,
           <<"}">> >>,
         <<>>)

\*   export default abstract class { }
DefaultAbstractClass ==
    Node("ExportDefaultDeclaration", NoId, 0, Declaration("ClassDeclaration", NoId, 0),
         <<>>,
         << <<"e", "x", "p", "o", "r", "t">>,
           <<" ">>,
           <<"d", "e", "f", "a", "u", "l", "t">>,
           <<" ">>,
           <<"a", "b", "s", "t", "r", "a", "c", "t">>,
           <<" ">>,
           <<"c", "l", "a", "s", "s">>,
           <<" ">>,
           <<"{">>,
           <<" ">>,
           <<"}">> >>,
         <<>>)

\*   export default class User { }
DefaultNamedClass ==
    Node("ExportDefaultDeclaration", NoId, 0, Declaration("ClassDeclaration", <<"U", "s", "e", "r">>, 0),
         <<>>,
         << <<"e", "x", "p", "o", "r", "t">>,
           <<" ">>,
           <<"d", "e", "f", "a", "u", "l", "t">>,
           <<" ">>,
           <<"c", "l", "a", "s", "s">>,
           <<" ">>,
           <<"U", "s", "e", "r">>,
           <<" ">>,
           <<"{">>,
           <<" ">>,
           <<"}">> >>,
         <<>>)

\*   /* export default */
\*   export default class Shape { }
CommentedDefaultClass ==
    Node("ExportDefaultDeclaration", NoId, 0, Declaration("ClassDeclaration", <<"S", "h", "a", "p", "e">>, 0),
         <<>>,
         << <<"e", "x", "p", "o", "r", "t">>,
           <<" ">>,
           <<"d", "e", "f", "a", "u", "l", "t">>,
           <<" ">>,
           <<"c", "l", "a", "s", "s">>,
           <<" ">>,
           <<"S", "h", "a", "p", "e">>,
           <<" ">>,
           <<"{">>,
           <<" ">>,
           <<"}">> >>,
         <<[type |-> "CommentBlock",
            value |-> <<" ", "e", "x", "p", "o", "r", "t", " ", "d", "e", "f", "a", "u", "l", "t", " ">>]>>)

\*   export default Box;
DefaultIdentifier ==
    Node("ExportDefaultDeclaration", NoId, 0, Declaration("Identifier", <<"B", "o", "x">>, 0),
         <<>>,
         << <<"e", "x", "p", "o", "r", "t">>,
           <<" ">>,
           <<"d", "e", "f", "a", "u", "l", "t">>,
           <<" ">>,
           <<"B", "o", "x">>,
           <<";">> >>,
         <<>>)

\*   /*<U+E000>_NL_<U+E000>*/
\*   declare const m: string;
MarkerComment ==
    Node("VariableDeclaration", <<"m">>, 1, NoDeclaration,
         <<>>,
         << <<"d", "e", "c", "l", "a", "r", "e">>, <<" ">>, <<"c", "o", "n", "s", "t">>, <<" ">>, <<"m">>, <<":">>, <<" ">>, <<"s", "t", "r", "i", "n", "g">>, <<";">> >>,
         <<[type |-> "CommentBlock", value |-> MARKERS_NEWLINE]>>)

\*   /*<U+E000>_NL_
\*   */
\*   declare const h: string;
HalfMarkerComment ==
    Node("VariableDeclaration", <<"h">>, 1, NoDeclaration,
         <<>>,
         << <<"d", "e", "c", "l", "a", "r", "e">>, <<" ">>, <<"c", "o", "n", "s", "t">>, <<" ">>, <<"h">>, <<":">>, <<" ">>, <<"s", "t", "r", "i", "n", "g">>, <<";">> >>,
         <<[type |-> "CommentBlock",
            value |-> SubSeq(MARKERS_NEWLINE, 1, Len(MARKERS_NEWLINE) - 1) \o <<NL>>]>>)

Statements ==
    { MarkerComment, HalfMarkerComment,
      SideEffectImport,
      TypeImport,
      MixedImport,
      ExportAll,
      ReExport,
      ExportedInterface,
      Overload1,
      Overload2,
      TwoDeclarators,
      PromiseConst,
      TemplateType,
      DynamicImportConst,
      DynamicImportAgain,
      BadDynamicImportConst,
      DefaultFunction,
      DefaultGenericFunction,
      DefaultClass,
      DefaultClassExtends,
      DefaultClassImplements,
      DefaultAbstractClass,
      DefaultNamedClass,
      CommentedDefaultClass,
      DefaultIdentifier }

MaxStatements == 2

\* A module has at most one default export, and no statement twice.
Parses(statements) ==
    /\ \A i, j \in 1..Len(statements) : statements[i] = statements[j] => i = j
    /\ Cardinality({ i \in 1..Len(statements) :
                       statements[i].type = "ExportDefaultDeclaration" }) <= 1

Files ==
    { statements \in UNION { [1..n -> Statements] : n \in 1..MaxStatements } :
        Parses(statements) }

DynamicImports(text) ==
    Len(SelectSeq(Tokenize(text), LAMBDA token : StartsWith(token, S_importParen)))

RandomDraws(statement) ==
    [1..DynamicImports(statement.text) -> RandomStrings \X RandomStrings]

Init ==
    /\ body \in Files
    /\ index = 0 /\ referencedNames = {} /\ exportedNames = {}
    /\ result = <<>> /\ prepared = <<>> /\ pc = "parse" /\ returned = NotReturned
    /\ CodecIdle /\ DynIdle /\ RevIdle /\ DrvIdle /\ OutIdle /\ LoadIdle

\* parse, the sets and the array, and the loop over getAllImportNames
Parse ==
    /\ pc = "parse"
    /\ referencedNames' = getAllImportNames(body)
    /\ pc' = "loop"
    /\ UNCHANGED <<body, index, exportedNames, result, prepared, returned,
                   codecVars, dynVars, revVars, drvVars,
                   outVars, loadVars>>

\* The state after an iteration: the sets and the array as it left them; a
\* throw ends the function.
Step(done, random) ==
    /\ referencedNames' = done.referencedNames
    /\ exportedNames' = done.exportedNames
    /\ result' = done.result
    /\ prepared' = IF done.tokenised
                   THEN Append(prepared, [index |-> index, text |-> done.text,
                                          random |-> random])
                   ELSE prepared
    /\ pc' = IF done.threw THEN "thrown" ELSE "loop"
    /\ index' = IF done.threw THEN index ELSE index + 1

\* one statement of parsed.program.body
ProcessStatement ==
    /\ pc = "loop" /\ index < Len(body)
    /\ \E random \in RandomDraws(body[index + 1]) :
         Step(Iteration(body[index + 1], index, referencedNames,
                        exportedNames, result, random, lastIndex), random)
    /\ UNCHANGED <<body, returned, codecVars, dynVars, revVars, drvVars,
                   outVars, loadVars>>

\* return result.join('\n')
Return ==
    /\ pc = "loop" /\ index = Len(body)
    /\ returned' = [settled |-> TRUE, lines |-> result]
    /\ pc' = "done"
    /\ UNCHANGED <<body, index, referencedNames, exportedNames, result, prepared,
                   codecVars, dynVars, revVars, drvVars,
                   outVars, loadVars>>

Next == Parse \/ ProcessStatement \/ Return

Spec == Init /\ [][Next]_vars

\* Files of an exported function and a declaration whose type is a dynamic
\* import of any surface:
\*   declare const u: import('M')<access*>;
DynamicImportFile(src) ==
    << Node("VariableDeclaration", <<"u">>, 1, NoDeclaration, <<>>,
            << <<"d", "e", "c", "l", "a", "r", "e">>, <<" ">>, <<"c", "o", "n", "s", "t">>, <<" ">>, <<"u">>, <<":">>, <<" ">>,
               Surface(src), <<";">> >>,
            <<>>) >>

InitDyn ==
    /\ \E src \in DynSources : body = <<Overload1>> \o DynamicImportFile(src)
    /\ index = 0 /\ referencedNames = {} /\ exportedNames = {}
    /\ result = <<>> /\ prepared = <<>> /\ pc = "parse" /\ returned = NotReturned
    /\ CodecIdle /\ DynIdle /\ RevIdle /\ DrvIdle /\ OutIdle /\ LoadIdle

SpecDyn == InitDyn /\ [][Next]_vars

----------------------------------------------------------------------------
(* Properties of the forward transform *)

IsVarLine(line) == line.kind = "var"
VarLines == SelectSeq(result, IsVarLine)

\* The statement the k-th tokenised text came from, and its positional name.
PreparedFrom(k) == body[prepared[k].index + 1]

HasNewlineToken(text) == \E j \in 1..Len(text) : ~IsSpaceUnit(text[j]) /\ HasChar(text[j], NL)

RoundTrips(k) ==
    processTokenArray(VarLines[k].tokens) = Flatten(Tokenize(prepared[k].text))

UnambiguousTokens(text) == \A j \in 1..Len(text) : ~Ambiguous(text[j])

Current == body[index + 1]
Pushed == SubSeq(result', Len(result) + 1, Len(result'))
CurrentName == IF getName(Current) # NoId THEN getName(Current) ELSE generateVarName(index)

Iterates == pc = "loop" /\ index < Len(body) /\ index' = index + 1

KindCount(lines, kind) == Cardinality({ j \in 1..Len(lines) : lines[j].kind = kind })

\* C4: the iteration of a statement with a default-export modifier pushes
\* export { N as default } exactly once and first, so before any var N, N
\* being the declared name or else the positional one; for a default export
\* of a plain identifier that line is all it pushes; no other statement
\* pushes such a line.
C4_DefaultExportNormalised ==
    [][ Iterates =>
          IF Current.type = "ExportDefaultDeclaration"
          THEN /\ Pushed # <<>>
               /\ Pushed[1] = ExportDefaultLine(CurrentName)
               /\ KindCount(Pushed, "exportDefault") = 1
               /\ KindCount(Pushed, "export") = 0
               /\ \A j \in 1..Len(Pushed) :
                     Pushed[j].kind = "var" => Pushed[j].name = CurrentName
               /\ Current.declaration.type = "Identifier"
                     => Pushed = <<ExportDefaultLine(CurrentName)>>
          ELSE KindCount(Pushed, "exportDefault") = 0 ]_vars

C4_Witness ==
    /\ pc = "done" /\ Len(body) = 2
    /\ body[1].type = "ExportDefaultDeclaration" /\ body[1].declaration.type = "ClassDeclaration"
    /\ body[2].type # "ExportDefaultDeclaration"
    /\ result[1].kind = "exportDefault" /\ result[2].kind = "var"
    /\ result[1].name = result[2].name

UnnamedDefault(statement) ==
    /\ statement.type = "ExportDefaultDeclaration"
    /\ statement.declaration.type \in {"FunctionDeclaration", "TSDeclareFunction", "ClassDeclaration"}
    /\ statement.declaration.id = NoId

NameInserted(text, name) ==
    \E j \in 1..(Len(text) - 2) :
        text[j] \in {W_function, W_class} /\ IsSpaceUnit(text[j + 1]) /\ text[j + 2] = name

\* C5 as stated: for every default export of a function or class without an
\* identifier, the tokenised text holds the synthesised name N inserted
\* after the function or class keyword and no export default prefix, and N
\* is the name in export { N as default } and in var N.
C5_UnnamedDefaultIsNamed ==
    \A k \in 1..Len(VarLines) :
        UnnamedDefault(PreparedFrom(k)) =>
            LET N == generateVarName(prepared[k].index)
            IN  /\ NameInserted(prepared[k].text, N)
                /\ ~StartsWith(TrimStart(Flatten(prepared[k].text)), W_export)
                /\ VarLines[k].name = N
                /\ \E j \in 1..Len(result) : result[j] = ExportDefaultLine(N)

\* Statements other than the one at position p, by position.
Others(p) == SelectSeq([j \in 1..Len(body) |-> j], LAMBDA j : j # p)

DrawsAt(i) ==
    IF \E k \in 1..Len(prepared) : prepared[k].index = i
    THEN prepared[CHOOSE k \in 1..Len(prepared) : prepared[k].index = i].random
    ELSE <<>>

\* The lines the loop pushes for the statements at the positions kept, each
\* at its own index and with the random strings it drew.
RECURSIVE Rerun(_, _, _, _)
RerunNext(kept, done) ==
    Rerun(Tail(kept), done.referencedNames, done.exportedNames, done.result)
Rerun(kept, names, exported, lines) ==
    IF kept = <<>> THEN lines
    ELSE RerunNext(kept, Iteration(body[Head(kept)], Head(kept) - 1, names, exported,
                                   lines, DrawsAt(Head(kept) - 1), lastIndex))

IsImportWithoutSpecifiers(statement) ==
    statement.type = "ImportDeclaration" /\ statement.specifiers = <<>>

\* C6: an import with no specifiers adds no line, and what dtsToFakeJs
\* returns is what the loop pushes for the other statements of the file
\* alone, each where it stands: their contributions are unchanged.
C6_SideEffectImportElided ==
    pc = "done" =>
        \A p \in 1..Len(body) :
            IsImportWithoutSpecifiers(body[p]) =>
                returned.lines = Rerun(Others(p), getAllImportNames(body), {}, <<>>)

C6_Witness ==
    /\ pc = "done" /\ Len(body) = 2
    /\ IsImportWithoutSpecifiers(body[1])
    /\ body[2].type = "ExportNamedDeclaration"
    /\ Len(returned.lines) >= 2

ExportCount(name) ==
    Cardinality({ j \in 1..Len(result) : result[j] = ExportLine(name) })

IsExportedDeclaration(statement) ==
    statement.type = "ExportNamedDeclaration" /\ statement.declaration # NoDeclaration

NameAt(i) ==
    IF getName(body[i + 1]) # NoId THEN getName(body[i + 1]) ELSE generateVarName(i)

\* C7: export { N }; is in the lines at most once for each N, and exactly
\* once when a statement processed is an exported declaration, not a
\* default export, named N.
C7_ExportOnce ==
    /\ \A j \in 1..Len(result) :
          result[j].kind = "export" => ExportCount(result[j].name) = 1
    /\ pc \in {"loop", "done"} =>
          \A i \in 0..(index - 1) :
              IsExportedDeclaration(body[i + 1]) => ExportCount(NameAt(i)) = 1

C7_Witness ==
    /\ pc = "done" /\ Len(body) = 2
    /\ IsExportedDeclaration(body[1]) /\ IsExportedDeclaration(body[2])
    /\ NameAt(0) = NameAt(1)
    /\ KindCount(result, "var") = 2
    /\ ExportCount(NameAt(0)) = 1

IsQuoted(element) ==
    Len(element) >= 2 /\ Head(element) = "\"" /\ element[Len(element)] = "\""

\* Names the file declares (the positional name where a statement has none
\* of its own) and the local names it imports.
FileNames ==
    { NameAt(i) : i \in 0..(Len(body) - 1) } \cup getAllImportNames(body)

\* The name is bound by a declaration the expander injected.
BoundByExtra(name) ==
    \E j \in 1..Len(result) :
        /\ result[j].kind = "extra"
        /\ \/ Contains(result[j].text, <<" ", "a", "s", " ">> \o name \o <<" ">>)
           \/ Contains(result[j].text, <<"v", "a", "r", " ">> \o name \o <<" ">>)

\* C8 as stated: each element of a var line is a quoted string literal or a
\* bare identifier; a bare identifier is a name the file declares or
\* imports or an alias the expander injected; every other token is quoted.
C8_BareTokensAreKnown ==
    \A k \in 1..Len(VarLines) :
        \A j \in 1..Len(VarLines[k].tokens) :
            LET element == VarLines[k].tokens[j]
                token == Tokenize(prepared[k].text)[j]
            IN  /\ IsQuoted(element) \/ IsIdentifier(element)
                /\ ~IsQuoted(element) => (element \in FileNames \/ BoundByExtra(element))
                /\ (token \notin FileNames /\ ~StartsWith(token, S_importParen))
                      => IsQuoted(element)

\* C8 amended: as above, but a bare identifier may also be a word that the
\* capital-letter heuristic takes for a name, and the tokens quoted are the
\* others.
C8_BareTokensAreKnownOrCapital ==
    \A k \in 1..Len(VarLines) :
        \A j \in 1..Len(VarLines[k].tokens) :
            LET element == VarLines[k].tokens[j]
                token == Tokenize(prepared[k].text)[j]
            IN  /\ IsQuoted(element) \/ IsIdentifier(element)
                /\ ~IsQuoted(element) =>
                      \/ element \in FileNames
                      \/ BoundByExtra(element)
                      \/ CAPITAL_LETTER_RE(element)
                /\ (/\ token \notin FileNames
                    /\ ~StartsWith(token, S_importParen)
                    /\ ~CAPITAL_LETTER_RE(token))
                      => IsQuoted(element)

C8_Witness ==
    /\ pc = "done"
    /\ \E k \in 1..Len(VarLines) :
          \E i, j, q \in 1..Len(VarLines[k].tokens) :
              /\ VarLines[k].tokens[i] \notin FileNames
              /\ ~IsQuoted(VarLines[k].tokens[i])
              /\ CAPITAL_LETTER_RE(VarLines[k].tokens[i])
              /\ VarLines[k].tokens[j] \in FileNames
              /\ IsQuoted(VarLines[k].tokens[q])

HasBadImport(text) ==
    \E j \in 1..Len(text) : StartsWith(text[j], S_importParen) /\ ~InGrammar(text[j])

\* C10: a text with a token that starts with import( and is not of the form
\* import ( QUOTE SPEC QUOTE ) ACCESS* makes dtsToFakeJs throw at that
\* statement, and what throws returns nothing: only a run that reached the
\* end of the file returns its lines.
C10_InvalidImportThrows ==
    /\ \A k \in 1..Len(prepared) :
          HasBadImport(prepared[k].text) => (pc = "thrown" /\ k = Len(prepared))
    /\ pc = "thrown" => returned = NotReturned
    /\ returned.settled => (pc = "done" /\ returned.lines = result)

C10_Witness ==
    /\ pc = "thrown"
    /\ prepared # <<>> /\ HasBadImport(prepared[Len(prepared)].text)
    /\ result # <<>>
    /\ returned = NotReturned

----------------------------------------------------------------------------
(* Injected names of the dynamic-import expander within one file *)

IsImportToken(token) == StartsWith(token, S_importParen)

\* The place in result of the k-th var line.
VarPosition(k) ==
    CHOOSE p \in 1..Len(result) :
        /\ result[p].kind = "var"
        /\ KindCount(SubSeq(result, 1, p), "var") = k

ImportsUpTo(k, j) ==
    Len(SelectSeq(SubSeq(Tokenize(prepared[k].text), 1, j), IsImportToken))

\* extras.push(staticImport.declarations) and tokens.push(staticImport.variableName)
\* for the j-th token of the k-th tokenised text: the extra line and the
\* name in the token array.
DeclarationsFor(k, j) ==
    result[VarPosition(k) - DynamicImports(prepared[k].text) + ImportsUpTo(k, j) - 1].text
VariableNameFor(k, j) == VarLines[k].tokens[j]

ImportTokenAt(k, j) ==
    /\ k \in 1..Len(VarLines) /\ k <= Len(prepared)
    /\ j \in 1..Len(Tokenize(prepared[k].text))
    /\ IsImportToken(Tokenize(prepared[k].text)[j])

ImportPlaces ==
    UNION { { <<k, j>> : j \in { i \in 1..Len(VarLines[k].tokens) : ImportTokenAt(k, i) } } :
              k \in 1..Len(VarLines) }

\* C11: two dynamic imports of the same text in one file are given the same
\* injected identifier and the same import declaration.
C11_SameImportSameName ==
    \A a, b \in ImportPlaces :
        Tokenize(prepared[a[1]].text)[a[2]] = Tokenize(prepared[b[1]].text)[b[2]]
            => /\ VariableNameFor(a[1], a[2]) = VariableNameFor(b[1], b[2])
               /\ DeclarationsFor(a[1], a[2]) = DeclarationsFor(b[1], b[2])

----------------------------------------------------------------------------
(* Injected names of the hash-suffix expander for different targets *)

\* What a dynamic import refers to: the module and the properties accessed,
\* however each access is written (.name or ['name']).
TargetOf(src) == <<src.module, [i \in 1..Len(src.accesses) |-> src.accesses[i].name]>>

\* The other dynamic imports a file may hold next to the one expanded.
OtherImports == { src \in DynSources : WellFormed(src) }

Collides(other) ==
    /\ ~convertDynamicImportToStatic(Surface(other)).threw
    /\ TargetOf(other) # TargetOf(dSrc)
    /\ convertDynamicImportToStatic(Surface(other)).variableName = dOut.variableName

\* C12: a dynamic import that differs from the one expanded in its module
\* specifier or in a property it accesses is given another injected
\* identifier.
C12_DifferentTargetDifferentName ==
    (dPc = "done" /\ WellFormed(dSrc)) => \A other \in OtherImports : ~Collides(other)

----------------------------------------------------------------------------
(* The reverse transform fakeJsToDts: src/src/fake/fake-js-to-dts.ts        *)
(*                                                                          *)
(* The file holds the function twice, once walking the tree with traverse   *)
(* and once looping over program.body; on the top-level statements of a     *)
(* bundle both do the same, and the loop is what is modelled. A statement   *)
(* of the bundle is the node the parser gives with the fields the code      *)
(* reads, and its text as characters.                                       *)

Identifier(name) == [type |-> "Identifier", name |-> name]
StringLiteral(value) == [type |-> "StringLiteral", value |-> value]
NumericLiteral == [type |-> "NumericLiteral"]
BlockStatement == [type |-> "BlockStatement"]
ArrowFunctionExpression(fnBody) == [type |-> "ArrowFunctionExpression", body |-> fnBody]
FunctionExpression == [type |-> "FunctionExpression", body |-> BlockStatement]
ObjectProperty(key, value) == [type |-> "ObjectProperty", key |-> key, value |-> value]
ObjectMethod(key) == [type |-> "ObjectMethod", key |-> key]
SpreadElement(argument) == [type |-> "SpreadElement", argument |-> argument]
ObjectExpression(properties) == [type |-> "ObjectExpression", properties |-> properties]
CallExpression(callee, arguments) ==
    [type |-> "CallExpression", callee |-> callee, arguments |-> arguments]
MemberExpression(object, property, computed) ==
    [type |-> "MemberExpression", object |-> object, property |-> property,
     computed |-> computed]
\* An array literal by the texts of its elements: a string literal in double
\* quotes or an identifier.
ArrayExpression(elements) == [type |-> "ArrayExpression", elements |-> elements]
VariableDeclarator(id, init) == [id |-> id, init |-> init]
NoExpression == [type |-> "null"]

Statement(type, declaration, text, expression, declarations) ==
    [type |-> type, declaration |-> declaration, text |-> text,
     expression |-> expression, declarations |-> declarations]

ImportDeclaration(text) == Statement("ImportDeclaration", NoDeclaration, text, NoExpression, <<>>)
ExportAllDeclaration(text) ==
    Statement("ExportAllDeclaration", NoDeclaration, text, NoExpression, <<>>)
ExportNamedDeclaration(text) ==
    Statement("ExportNamedDeclaration", NoDeclaration, text, NoExpression, <<>>)
ExpressionStatement(expression) ==
    Statement("ExpressionStatement", NoDeclaration, <<>>, expression, <<>>)
VariableDeclaration(declarations) ==
    Statement("VariableDeclaration", NoDeclaration, <<>>, NoExpression, declarations)

\* \w and \b of a pattern
IsWordChar(c) == c \in Lower \cup Upper \cup Digit \cup {"_"}
S_mjs == <<"m", "j", "s">>
S_cjs == <<"c", "j", "s">>
S_js == <<"j", "s">>

\* After n characters of s there is a word boundary, the n-th being a word
\* character.
BoundaryAfter(s, n) == Len(s) = n \/ ~IsWordChar(s[n + 1])

\* The length of the match of /.(?:mjs|cjs|js)\b/ at the start of s, or 0.
\* The dot of the pattern is not escaped: it takes any character but a line
\* terminator.
ExtensionMatch(s) ==
    IF s = <<>> \/ IsLineTerminator(s[1]) THEN 0
    ELSE IF Len(s) >= 4 /\ SubSeq(s, 2, 4) \in {S_mjs, S_cjs} /\ BoundaryAfter(s, 4) THEN 4
    ELSE IF Len(s) >= 3 /\ SubSeq(s, 2, 3) = S_js /\ BoundaryAfter(s, 3) THEN 3
    ELSE 0

\* statementText.replace(/.(?:mjs|cjs|js)\b/g, '')
RECURSIVE RemoveExtensions(_)
RemoveExtensions(s) ==
    IF s = <<>> THEN <<>>
    ELSE IF ExtensionMatch(s) > 0 THEN RemoveExtensions(DropFirst(s, ExtensionMatch(s)))
    ELSE <<Head(s)>> \o RemoveExtensions(Tail(s))

S_declareNamespace == <<"d", "e", "c", "l", "a", "r", "e", " ", "n", "a", "m", "e", "s", "p", "a", "c", "e", " ">>
S_openExport == <<" ", "{", "\n", " ", " ", "e", "x", "p", "o", "r", "t", " ", "{", " ">>
S_closeExport == <<" ", "}", ";", "\n", "}">>
S_commaSpace == <<",", " ">>

RECURSIVE Join(_, _)
Join(strings, separator) ==
    IF strings = <<>> THEN <<>>
    ELSE IF Len(strings) = 1 THEN Head(strings)
    ELSE Head(strings) \o separator \o Join(Tail(strings), separator)

Null == [null |-> TRUE, text |-> <<>>]
Text(text) == [null |-> FALSE, text |-> text]

\* ExportOfProperty that writes the key alone.
ExportOfPropertyKeyOnly(prop) ==
    IF /\ prop.type = "ObjectProperty"
       /\ prop.key.type = "Identifier"
       /\ prop.value.type = "ArrowFunctionExpression"
       /\ prop.value.body.type = "Identifier"
    THEN Text(prop.key.name)
    ELSE Null

\* The callback of map in handleNamespace, on a property that passed the
\* first filter.
ExportOfProperty(prop) ==
    IF /\ prop.type = "ObjectProperty"
       /\ prop.key.type = "Identifier"
       /\ prop.value.type = "ArrowFunctionExpression"
       /\ prop.value.body.type = "Identifier"
    THEN IF prop.key.name = prop.value.body.name
         THEN Text(prop.key.name)
         ELSE Text(prop.value.body.name \o S_as \o prop.key.name)
    ELSE Null

\* .filter(ObjectProperty).map(...).filter(not null)
NamespaceExports(properties) ==
    LET kept == SelectSeq(properties, LAMBDA prop : prop.type = "ObjectProperty")
        mapped == [i \in 1..Len(kept) |-> ExportOfProperty(kept[i])]
        named == SelectSeq(mapped, LAMBDA e : ~e.null)
    IN  [i \in 1..Len(named) |-> named[i].text]

IsNamespaceCall(expr) ==
    /\ expr.type = "CallExpression"
    /\ expr.callee.type = "Identifier"
    /\ Len(expr.arguments) = 2
    /\ expr.arguments[1].type = "Identifier"
    /\ expr.arguments[2].type = "ObjectExpression"

handleNamespace(stmt) ==
    IF ~IsNamespaceCall(stmt.expression) THEN Null
    ELSE IF NamespaceExports(stmt.expression.arguments[2].properties) = <<>> THEN Null
    ELSE Text(S_declareNamespace \o stmt.expression.arguments[1].name \o S_openExport
                \o Join(NamespaceExports(stmt.expression.arguments[2].properties),
                        S_commaSpace)
                \o S_closeExport)

\* resultParts.push(...): a part by the statement it was pushed for, what it
\* is, and its text.
Part(from, kind, text) == [from |-> from, kind |-> kind, text |-> text]

\* The loop over statement.declarations: a part for each initialiser that is
\* an array literal with text in it.
RECURSIVE TokenArrayParts(_, _)
TokenArrayParts(from, declarations) ==
    IF declarations = <<>> THEN <<>>
    ELSE (IF /\ Head(declarations).init.type = "ArrayExpression"
             /\ processTokenArray(Head(declarations).init.elements) # <<>>
          THEN <<Part(from, "tokens", processTokenArray(Head(declarations).init.elements))>>
          ELSE <<>>)
         \o TokenArrayParts(from, Tail(declarations))

NamespacePart(from, namespaceDecl) ==
    IF namespaceDecl.null THEN <<>> ELSE <<Part(from, "namespace", namespaceDecl.text)>>

\* What one iteration of the loop of fakeJsToDts pushes for a statement.
PartsOf(from, statement) ==
    IF isImportDeclaration(statement)
    THEN <<Part(from, "import", RemoveExtensions(statement.text))>>
    ELSE IF isExportAllDeclaration(statement) \/ isReExportStatement(statement)
    THEN <<Part(from, "export", statement.text)>>
    ELSE IF statement.type = "ExpressionStatement"
    THEN NamespacePart(from, handleNamespace(statement))
    ELSE IF statement.type = "VariableDeclaration"
    THEN TokenArrayParts(from, statement.declarations)
    ELSE <<>>

----------------------------------------------------------------------------
(* Bundles: the bundled fake-JS files the reverse transform is run on *)

\* The names a bundle uses, exports_schema being what the bundler makes up
\* for the namespace of a module imported with import * as schema.
N_exports_schema == <<"e", "x", "p", "o", "r", "t", "s", "_", "s", "c", "h", "e", "m", "a">>
N_schema == <<"s", "c", "h", "e", "m", "a">>
N_export == <<"_", "_", "e", "x", "p", "o", "r", "t">>
N_check == <<"c", "h", "e", "c", "k">>
N_verify == <<"v", "e", "r", "i", "f", "y">>

\*   import { a as b } from "./chunk-x.js";
ImportFromChunk == ImportDeclaration(<<"i", "m", "p", "o", "r", "t", " ", "{", " ", "a", " ", "a", "s", " ", "b", " ", "}", " ", "f", "r", "o", "m", " ", "\"", ".", "/", "c", "h", "u", "n", "k", "-", "x", ".", "j", "s", "\"", ";">>)

\*   export * from "./c.js";
ExportAllFromChunk == ExportAllDeclaration(<<"e", "x", "p", "o", "r", "t", " ", "*", " ", "f", "r", "o", "m", " ", "\"", ".", "/", "c", ".", "j", "s", "\"", ";">>)

\*   export { exports_schema as schema };
ExportNamespaceAs == ExportNamedDeclaration(<<"e", "x", "p", "o", "r", "t", " ", "{", " ", "e", "x", "p", "o", "r", "t", "s", "_", "s", "c", "h", "e", "m", "a", " ", "a", "s", " ", "s", "c", "h", "e", "m", "a", " ", "}", ";">>)

\*   __export(exports_schema, { check: () => check, verify: () => check });
NamespaceOfSchema ==
    ExpressionStatement(
        CallExpression(Identifier(N_export),
            << Identifier(N_exports_schema),
               ObjectExpression(
                 << ObjectProperty(Identifier(N_check),
                                   ArrowFunctionExpression(Identifier(N_check))),
                    ObjectProperty(Identifier(N_verify),
                                   ArrowFunctionExpression(Identifier(N_check))) >>) >>))

\*   var check = ["declare", " ", "function", " ", check, "(", ")", ":", " ", "void", ";"];
TokenArrayOfCheck ==
    VariableDeclaration(
        << VariableDeclarator(N_check,
             ArrayExpression(<< <<"\"", "d", "e", "c", "l", "a", "r", "e", "\"">>, <<"\"", " ", "\"">>, <<"\"", "f", "u", "n", "c", "t", "i", "o", "n", "\"">>, <<"\"", " ", "\"">>, N_check,
                                <<"\"", "(", "\"">>, <<"\"", ")", "\"">>, <<"\"", ":", "\"">>, <<"\"", " ", "\"">>, <<"\"", "v", "o", "i", "d", "\"">>, <<"\"", ";", "\"">> >>)) >>)

\*   var client = ["declare", " ", "const", " ", client, ":", " ", "typeof", " ", exports_schema, ";"];
TokenArrayOfClient ==
    VariableDeclaration(
        << VariableDeclarator(<<"c", "l", "i", "e", "n", "t">>,
             ArrayExpression(<< <<"\"", "d", "e", "c", "l", "a", "r", "e", "\"">>, <<"\"", " ", "\"">>, <<"\"", "c", "o", "n", "s", "t", "\"">>, <<"\"", " ", "\"">>, <<"c", "l", "i", "e", "n", "t">>, <<"\"", ":", "\"">>, <<"\"", " ", "\"">>,
                                <<"\"", "t", "y", "p", "e", "o", "f", "\"">>, <<"\"", " ", "\"">>, N_exports_schema, <<"\"", ";", "\"">> >>)) >>)

\*   var User2 = User;
AliasOfIdentifier ==
    VariableDeclaration(<< VariableDeclarator(<<"U", "s", "e", "r", "2">>, Identifier(<<"U", "s", "e", "r">>)) >>)

\*   var c_k3x = User_q9z.b['c'];   as the expander writes var V = N<rest>;
AliasOfMember ==
    VariableDeclaration(
        << VariableDeclarator(<<"c", "_", "k", "3", "x">>,
             MemberExpression(
                 MemberExpression(Identifier(<<"U", "s", "e", "r", "_", "q", "9", "z">>), Identifier(<<"b">>), FALSE),
                 StringLiteral(<<"c">>), TRUE)) >>)

\*   var u = ["declare", " ", "const", " ", u, ":", " ", c_k3x, ";"];
TokenArrayOfAlias ==
    VariableDeclaration(
        << VariableDeclarator(<<"u">>,
             ArrayExpression(<< <<"\"", "d", "e", "c", "l", "a", "r", "e", "\"">>, <<"\"", " ", "\"">>, <<"\"", "c", "o", "n", "s", "t", "\"">>, <<"\"", " ", "\"">>, <<"u">>, <<"\"", ":", "\"">>, <<"\"", " ", "\"">>,
                                <<"c", "_", "k", "3", "x">>, <<"\"", ";", "\"">> >>)) >>)

\*   var e = [], f = ["type", " ", f, ";"];
TwoArrays ==
    VariableDeclaration(
        << VariableDeclarator(<<"e">>, ArrayExpression(<<>>)),
           VariableDeclarator(<<"f">>, ArrayExpression(<< <<"\"", "t", "y", "p", "e", "\"">>, <<"\"", " ", "\"">>, <<"f">>, <<"\"", ";", "\"">> >>)) >>)

\*   check;
BareExpression == ExpressionStatement(Identifier(N_check))

\*   {}
EmptyBlock == Statement("BlockStatement", NoDeclaration, <<"{", "}">>, NoExpression, <<>>)

BundleStatements ==
    { ImportFromChunk, ExportAllFromChunk, ExportNamespaceAs, NamespaceOfSchema,
      TokenArrayOfCheck, TokenArrayOfClient, AliasOfIdentifier, AliasOfMember,
      TokenArrayOfAlias, TwoArrays, BareExpression, EmptyBlock }

MaxBundle == 2

CatalogBundles == UNION { [1..n -> BundleStatements] : n \in 0..MaxBundle }

\* Calls of any shape: the callee, the number and kinds of arguments, and
\* the properties of the object literal.
Properties ==
    { ObjectProperty(Identifier(<<"a">>), ArrowFunctionExpression(Identifier(<<"a">>))),
      ObjectProperty(Identifier(<<"b">>), ArrowFunctionExpression(Identifier(<<"c">>))),
      ObjectProperty(StringLiteral(<<"d">>), ArrowFunctionExpression(Identifier(<<"d">>))),
      ObjectProperty(Identifier(<<"e">>), FunctionExpression),
      ObjectProperty(Identifier(<<"f">>), ArrowFunctionExpression(BlockStatement)),
      ObjectProperty(Identifier(<<"g">>), Identifier(<<"g">>)),
      ObjectMethod(Identifier(<<"h">>)),
      SpreadElement(Identifier(<<"k">>)) }

MaxProperties == 2

Objects == { ObjectExpression(properties) :
               properties \in UNION { [1..n -> Properties] : n \in 0..MaxProperties } }

Callees == { Identifier(N_export), MemberExpression(Identifier(<<"o">>), Identifier(N_export), FALSE) }
FirstArguments == { Identifier(N_exports_schema), Identifier(<<"n", "s">>), StringLiteral(<<"n", "s">>) }

Calls ==
    { CallExpression(callee, <<first, object>>) :
        callee \in Callees, first \in FirstArguments, object \in Objects }
    \cup { CallExpression(Identifier(N_export), arguments) :
             arguments \in { <<>>, <<Identifier(<<"n", "s">>)>>,
                             <<Identifier(<<"n", "s">>), Identifier(<<"o">>)>>,
                             <<Identifier(<<"n", "s">>), ObjectExpression(<<>>), NumericLiteral>>,
                             <<Identifier(<<"n", "s">>),
                               ObjectExpression(<<ObjectProperty(Identifier(<<"a">>),
                                    ArrowFunctionExpression(Identifier(<<"a">>)))>>),
                               NumericLiteral>> } }

CallBundles == { <<ExpressionStatement(call), TokenArrayOfCheck>> : call \in Calls }

\* Import statements of any module specifier: import NAMES from "SPECIFIER";
SpecifierPieces ==
    { <<".", "/", "c">>, <<".", "j", "s">>, <<".", "m", "j", "s">>, <<".", "c", "j", "s">>, <<"j", "s">>, <<"_">>, <<".", "d">> }

ImportedNames == { <<"{", " ", "a", " ", "a", "s", " ", "b", " ", "}">>, <<"{", " ", "j", "s", " ", "}">>, <<"*", " ", "a", "s", " ", "n", "j", "s">> }

MaxSpecifierPieces == 3

ModuleSpecifiers ==
    { Flatten(pieces) :
        pieces \in UNION { [1..n -> SpecifierPieces] : n \in 1..MaxSpecifierPieces } }

S_importSpace == <<"i", "m", "p", "o", "r", "t", " ">>
S_fromQuote == <<" ", "f", "r", "o", "m", " ", "\"">>
S_endImport == <<"\"", ";">>

ImportText(names, specifier) ==
    S_importSpace \o names \o S_fromQuote \o specifier \o S_endImport

ImportBundles ==
    { <<ImportDeclaration(ImportText(names, specifier))>> :
        names \in ImportedNames, specifier \in ModuleSpecifiers }

\* Token arrays in which the bundler has written a string as a template
\* literal:
\*   var T = [<grave>type<grave>];       var T = [<grave>a\\b<grave>];
\*   var T = [<grave>\<grave><grave>];        var T = [<grave>\${K}<grave>];
\*   var T = [<grave>a${Box}b<grave>];
TemplateLiterals ==
    { <<BackTick, "t", "y", "p", "e", BackTick>>,
      <<BackTick, "a", "\\", "\\", "b", BackTick>>,
      <<BackTick, "\\", BackTick, BackTick>>,
      <<BackTick, "\\", "$", "{", "K", "}", BackTick>>,
      <<BackTick, "a", "$", "{", "B", "o", "x", "}", "b", BackTick>> }

TemplateBundles ==
    { << VariableDeclaration(<< VariableDeclarator(<<"T">>, ArrayExpression(<<element>>)) >>) >> :
        element \in TemplateLiterals }

Bundles == CatalogBundles \cup CallBundles \cup ImportBundles \cup TemplateBundles

\* after parse: program.body and the empty resultParts
RevInit ==
    /\ program \in Bundles
    /\ at = 0 /\ resultParts = <<>> /\ rPc = "loop" /\ dts = NotResolved
    /\ CodecIdle /\ DynIdle /\ FwdIdle /\ DrvIdle /\ OutIdle /\ LoadIdle

\* one iteration of for (const statement of program.body)
ReverseStatement ==
    /\ rPc = "loop" /\ at < Len(program)
    /\ resultParts' = resultParts \o PartsOf(at + 1, program[at + 1])
    /\ at' = at + 1
    /\ UNCHANGED <<program, rPc, dts, codecVars, dynVars, fwdVars, drvVars,
                   outVars, loadVars>>

\* return resultParts.join('\n')
ReverseReturn ==
    /\ rPc = "loop" /\ at = Len(program)
    /\ dts' = [settled |-> TRUE, parts |-> resultParts]
    /\ rPc' = "done"
    /\ UNCHANGED <<program, at, resultParts, codecVars, dynVars, fwdVars, drvVars,
                   outVars, loadVars>>

RevNext == ReverseStatement \/ ReverseReturn

SpecReverse == RevInit /\ [][RevNext]_vars

----------------------------------------------------------------------------
(* Properties of the reverse transform *)

\* The parts pushed for the i-th statement of the bundle.
PartsFor(i) == SelectSeq(resultParts, LAMBDA part : part.from = i)

\* A call with an identifier callee and exactly two arguments, an identifier
\* and an object literal.
IsSynthesisCall(statement) ==
    /\ statement.type = "ExpressionStatement"
    /\ statement.expression.type = "CallExpression"
    /\ statement.expression.callee.type = "Identifier"
    /\ Len(statement.expression.arguments) = 2
    /\ statement.expression.arguments[1].type = "Identifier"
    /\ statement.expression.arguments[2].type = "ObjectExpression"

IsEligible(prop) ==
    /\ prop.type = "ObjectProperty"
    /\ prop.key.type = "Identifier"
    /\ prop.value.type = "ArrowFunctionExpression"
    /\ prop.value.body.type = "Identifier"

Written(prop) ==
    IF prop.key.name = prop.value.body.name THEN prop.key.name
    ELSE prop.value.body.name \o <<" ", "a", "s", " ">> \o prop.key.name

Listing(properties) ==
    Join([i \in 1..Len(SelectSeq(properties, IsEligible)) |->
              Written(SelectSeq(properties, IsEligible)[i])], <<",", " ">>)

NamespaceBlock(name, properties) ==
    <<"d", "e", "c", "l", "a", "r", "e", " ", "n", "a", "m", "e", "s", "p", "a", "c", "e", " ">> \o name \o <<" ", "{", "\n", " ", " ", "e", "x", "p", "o", "r", "t", " ", "{", " ">> \o Listing(properties) \o <<" ", "}", ";", "\n", "}">>

NamespaceOf(statement) == statement.expression.arguments[1].name
PropertiesOf(statement) == statement.expression.arguments[2].properties

\* C13: for a top-level statement that is a call with an identifier callee
\* and exactly two arguments, an identifier Name and an object literal, the
\* reverse transform pushes exactly one declare namespace Name { export {
\* ... }; } that lists, in the order of the properties, the properties with
\* an identifier key and an arrow function whose body is an identifier,
\* each as key, or as value as key when the two differ; and it pushes
\* nothing when no property is of that kind.
C13_NamespaceSynthesisReversed ==
    \A i \in 1..at :
        IsSynthesisCall(program[i]) =>
            IF SelectSeq(PropertiesOf(program[i]), IsEligible) = <<>>
            THEN PartsFor(i) = <<>>
            ELSE PartsFor(i) = << Part(i, "namespace",
                                       NamespaceBlock(NamespaceOf(program[i]),
                                                      PropertiesOf(program[i]))) >>

C13_Witness ==
    /\ rPc = "done" /\ Len(program) = 2
    /\ IsSynthesisCall(program[1])
    /\ Len(PropertiesOf(program[1])) = 2
    /\ ~IsEligible(PropertiesOf(program[1])[1])
    /\ IsEligible(PropertiesOf(program[1])[2])
    /\ PartsFor(1) = << Part(1, "namespace", <<"d", "e", "c", "l", "a", "r", "e", " ", "n", "a", "m", "e", "s", "p", "a", "c", "e", " ", "n", "s", " ", "{", "\n", " ", " ", "e", "x", "p", "o", "r", "t", " ", "{", " ", "c", " ", "a", "s", " ", "b", " ", "}", ";", "\n", "}">>) >>
    /\ dts.settled /\ dts.parts = resultParts /\ Len(resultParts) = 2

\* The bundle exports the made-up local under the name the user gave the
\* namespace: export { exports_schema as schema };
ExportsSchemaAs(bundle) == \E j \in 1..Len(bundle) : bundle[j] = ExportNamespaceAs

\* C14: when the bundle holds a namespace-synthesis call on the made-up
\* local exports_schema together with export { exports_schema as schema },
\* the declare namespace block pushed for the call is named schema and not
\* exports_schema.
C14_NamespaceNamedAsUser ==
    \A i \in 1..at :
        (/\ IsSynthesisCall(program[i])
         /\ NamespaceOf(program[i]) = N_exports_schema
         /\ ExportsSchemaAs(program))
            => \A k \in 1..Len(PartsFor(i)) :
                  /\ StartsWith(PartsFor(i)[k].text, <<"d", "e", "c", "l", "a", "r", "e", " ", "n", "a", "m", "e", "s", "p", "a", "c", "e", " ", "s", "c", "h", "e", "m", "a", " ", "{">>)
                  /\ ~StartsWith(PartsFor(i)[k].text, <<"d", "e", "c", "l", "a", "r", "e", " ", "n", "a", "m", "e", "s", "p", "a", "c", "e", " ", "e", "x", "p", "o", "r", "t", "s", "_">>)

\* The module specifier of an import statement: what stands between its
\* first and its last double quote.
FirstQuote(text) == CHOOSE i \in 1..Len(text) : text[i] = "\"" /\ \A j \in 1..(i - 1) : text[j] # "\""
LastQuote(text) == CHOOSE i \in 1..Len(text) : text[i] = "\"" /\ \A j \in (i + 1)..Len(text) : text[j] # "\""
ModuleSpecifierOf(text) == SubSeq(text, FirstQuote(text) + 1, LastQuote(text) - 1)

\* A specifier without its extension .js, .mjs or .cjs, when it has one.
WithoutExtension(specifier) ==
    IF EndsWith(specifier, <<".", "m", "j", "s">>) \/ EndsWith(specifier, <<".", "c", "j", "s">>)
    THEN SubSeq(specifier, 1, Len(specifier) - 4)
    ELSE IF EndsWith(specifier, <<".", "j", "s">>)
    THEN SubSeq(specifier, 1, Len(specifier) - 3)
    ELSE specifier

ImportWithoutExtension(text) ==
    SubSeq(text, 1, FirstQuote(text)) \o WithoutExtension(ModuleSpecifierOf(text))
        \o SubSeq(text, LastQuote(text), Len(text))

\* C15: the part pushed for an import statement is the text of the statement
\* with the extension .js, .mjs or .cjs taken off the module specifier, and
\* every other character of it as it was.
C15_ImportVerbatimButExtension ==
    \A i \in 1..at :
        program[i].type = "ImportDeclaration"
            => PartsFor(i) = << Part(i, "import", ImportWithoutExtension(program[i].text)) >>

\* C16: removing the extensions from the part pushed for an import statement
\* once more changes nothing.
C16_RemoveExtensionsIdempotent ==
    \A k \in 1..Len(resultParts) :
        resultParts[k].kind = "import"
            => RemoveExtensions(resultParts[k].text) = resultParts[k].text

\* The type an alias stands for: Y for the identifier Y, and A['B']['c'] for
\* the member expression A.B['c'].
RECURSIVE TypeOfInitialiser(_)
TypeOfInitialiser(init) ==
    IF init.type = "Identifier" THEN init.name
    ELSE TypeOfInitialiser(init.object) \o <<"[", "'">>
           \o (IF init.property.type = "Identifier" THEN init.property.name
               ELSE init.property.value)
           \o <<"'", "]">>

TypeAlias(declarator) ==
    <<"t", "y", "p", "e", " ">> \o declarator.id \o <<" ", "=", " ">> \o TypeOfInitialiser(declarator.init) \o <<";">>

IsAlias(declarator) == declarator.init.type \in {"Identifier", "MemberExpression"}

\* C17: for every top-level var X = Y; and var X = A.B['c']; of the bundle
\* the reverse transform pushes type X = Y; respectively
\* type X = A['B']['c'];
C17_AliasVariablesSurvive ==
    \A i \in 1..at :
        program[i].type = "VariableDeclaration"
            => \A d \in 1..Len(program[i].declarations) :
                  IsAlias(program[i].declarations[d])
                      => \E k \in 1..Len(PartsFor(i)) :
                            PartsFor(i)[k].text = TypeAlias(program[i].declarations[d])

----------------------------------------------------------------------------
(* The driver generateDts: src/unnamed/part_002, with runTypescriptCompiler *)
(* of src/src/typescript-compiler.ts                                        *)
(*                                                                          *)
(* The project is what the call finds on disk: whether loadTsConfig finds a *)
(* tsconfig file, and for each entrypoint whether it is an absolute path,   *)
(* whether a file is there, and whether its name is that of a TypeScript    *)
(* file. What the checker, the load hooks, the bundler and the tree-shaker  *)
(* do is chosen when they run. A temp directory is the number of the        *)
(* mkdtemp call that made it.                                               *)

InferTypesError == "The \"inferTypes\" option requires a tsconfig.json file"
EntrypointsError == "One or more of the entrypoints you provided do not exist"
CompilerError == "TypeScript compiler failed"
ResolveError == "Cannot find package @typescript/native-preview"
BundlingError == "DTS bundling failed"
TreeshakeError == "DTS treeshaking failed"

Entrypoint(absolute, exists, typescript) ==
    [absolute |-> absolute, exists |-> exists, typescript |-> typescript]

Entrypoints == [absolute : BOOLEAN, exists : BOOLEAN, typescript : BOOLEAN]

MaxEntrypoints == 2
MaxLoads == 2
MaxOutputs == 2

Projects ==
    [ tsconfig : BOOLEAN,
      entrypoints : UNION { [1..n -> Entrypoints] : n \in 0..MaxEntrypoints } ]

\* entrypoints.filter((entrypoint) => !path.isAbsolute(entrypoint)) and its
\* complement
nonAbsoluteEntrypoints(entrypoints) == SelectSeq(entrypoints, LAMBDA e : ~e.absolute)
absoluteEntrypoints(entrypoints) == SelectSeq(entrypoints, LAMBDA e : e.absolute)

\* getFilesFromGlobs: the files there are for the patterns given
getFilesFromGlobs(patterns) == SelectSeq(patterns, LAMBDA e : e.exists)

\* filterTypescriptFiles: the files with the name of a TypeScript file
filterTypescriptFiles(files) == SelectSeq(files, LAMBDA e : e.typescript)

\* options.inferTypes && !tsconfig.filepath, the test left out
inferTypesWithoutTsconfigIgnored(opts, tsconfig) == FALSE
\* options.inferTypes && !tsconfig.filepath
inferTypesWithoutTsconfig(opts, tsconfig) == opts.inferTypes /\ ~tsconfig

\* the test of the entrypoints left out
noTypescriptEntrypointIgnored(entrypoints) == FALSE
\* !filterTypescriptFiles([...resolvedEntrypoints, ...absoluteEntrypoints]).length
noTypescriptEntrypoint(entrypoints) ==
    Len(filterTypescriptFiles(getFilesFromGlobs(nonAbsoluteEntrypoints(entrypoints))
                                \o absoluteEntrypoints(entrypoints))) = 0

Count(history, event) == Len(SelectSeq(history, LAMBDA e : e = event))

Rejected(error) == [state |-> "rejected", error |-> error]
Resolved == [state |-> "resolved", error |-> ""]
Throwing(error) == [state |-> "pending", error |-> error]

DrvInit ==
    /\ options \in [inferTypes : BOOLEAN, tsgo : BOOLEAN]
    /\ project \in Projects
    /\ tsCompiledDist = Undefined /\ tempDirs = {} /\ made = 0
    /\ events = <<>> /\ gPc = "start" /\ settled = Pending
    /\ CodecIdle /\ DynIdle /\ FwdIdle /\ RevIdle /\ OutIdle /\ LoadIdle

\* loadTsConfig and the test of inferTypes: part_002 lines 39-54
LoadTsConfig ==
    /\ gPc = "start"
    /\ events' = Append(events, "loadTsConfig")
    /\ IF inferTypesWithoutTsconfig(options, project.tsconfig)
       THEN gPc' = "settled" /\ settled' = Rejected(InferTypesError)
       ELSE gPc' = "entrypoints" /\ UNCHANGED settled
    /\ UNCHANGED <<options, project, tsCompiledDist, tempDirs, made,
                   codecVars, dynVars, fwdVars, revVars,
                   outVars, loadVars>>

\* the entrypoints: lines 56-76
ValidateEntrypoints ==
    /\ gPc = "entrypoints"
    /\ events' = Append(events, "getFilesFromGlobs")
    /\ IF noTypescriptEntrypoint(project.entrypoints)
       THEN gPc' = "settled" /\ settled' = Rejected(EntrypointsError)
       ELSE gPc' = "build" /\ UNCHANGED settled
    /\ UNCHANGED <<options, project, tsCompiledDist, tempDirs, made,
                   codecVars, dynVars, fwdVars, revVars,
                   outVars, loadVars>>

\* mkdtemp(path.join(tmpdir(), "bunup-dts-")): a name not given before
TempDir(n) == <<"bunup-dts-", n>>

\* await proc.exited, by the exit code
Exited(exitCode) == IF exitCode = 0 THEN "exited 0" ELSE "exited 1"

\* runTsgo of src/src/tsgo.ts: the same steps, and dist returned whatever
\* the exit code.
runTsgo(tsgo, resolves, exitCode, n) ==
    IF tsgo /\ ~resolves
    THEN [threw |-> TRUE, error |-> ResolveError, dist |-> Undefined,
          made |-> {}, events |-> <<>>]
    ELSE [threw |-> FALSE, error |-> "", dist |-> TempDir(n + 1),
          made |-> {TempDir(n + 1)},
          events |-> <<"mkdtemp", "spawn", Exited(exitCode)>>]

\* runTypescriptCompiler: the executable of tsgo may not resolve; then
\* mkdtemp, the spawn, and the throw on an exit code other than 0.
runTypescriptCompiler(tsgo, resolves, exitCode, n) ==
    IF tsgo /\ ~resolves
    THEN [threw |-> TRUE, error |-> ResolveError, dist |-> Undefined,
          made |-> {}, events |-> <<>>]
    ELSE IF exitCode # 0
    THEN [threw |-> TRUE, error |-> CompilerError, dist |-> Undefined,
          made |-> {TempDir(n + 1)},
          events |-> <<"mkdtemp", "spawn", Exited(exitCode)>>]
    ELSE [threw |-> FALSE, error |-> "", dist |-> TempDir(n + 1),
          made |-> {TempDir(n + 1)},
          events |-> <<"mkdtemp", "spawn", Exited(exitCode)>>]

\* The state after setup of the plugin ran the checker: tsCompiledDist is
\* assigned when the call returned, and a throw fails the build.
AfterCompiler(compiled) ==
    /\ events' = events \o <<"Bun.build">> \o compiled.events
    /\ tempDirs' = tempDirs \cup compiled.made
    /\ made' = made + Cardinality(compiled.made)
    /\ tsCompiledDist' = IF compiled.threw THEN tsCompiledDist ELSE compiled.dist
    /\ IF compiled.threw
       THEN gPc' = "finally" /\ settled' = Throwing(compiled.error)
       ELSE gPc' = "bundling" /\ UNCHANGED settled

\* Bun.build and the setup of the plugin: lines 88-125 and 184
Build ==
    /\ gPc = "build"
    /\ IF options.inferTypes
       THEN \E resolves \in BOOLEAN, exitCode \in {0, 1} :
               AfterCompiler(runTypescriptCompiler(options.tsgo, resolves, exitCode, made))
       ELSE /\ events' = Append(events, "Bun.build")
            /\ gPc' = "bundling"
            /\ UNCHANGED <<tsCompiledDist, tempDirs, made, settled>>
    /\ UNCHANGED <<options, project, codecVars, dynVars, fwdVars, revVars,
                   outVars, loadVars>>

Loads == Count(events, "onLoad") + Count(events, "onLoad failed")

\* what the hook reads for a path: lines 134-145
ReadsOf(nodeModules) ==
    IF ~nodeModules /\ options.inferTypes /\ tsCompiledDist # Undefined
    THEN <<"read tsCompiledDist">>
    ELSE <<>>

\* one call of the onLoad hook: lines 126-180; reading the declaration or
\* dtsToFakeJs may throw
Load ==
    /\ gPc = "bundling" /\ Loads < MaxLoads
    /\ Count(events, "onLoad failed") = 0
    /\ \E event \in {"onLoad", "onLoad failed"}, nodeModules \in BOOLEAN :
          events' = (events \o ReadsOf(nodeModules)) \o <<event>>
    /\ UNCHANGED <<options, project, tsCompiledDist, tempDirs, made, gPc, settled,
                   codecVars, dynVars, fwdVars, revVars,
                   outVars, loadVars>>

\* the result of Bun.build: lines 184-206; a failed hook fails the build, and
\* the bundler may fail by itself
Bundled ==
    /\ gPc = "bundling" /\ Loads > 0
    /\ \E success \in {s \in BOOLEAN : s => Count(events, "onLoad failed") = 0} :
          IF success
          THEN gPc' = "outputs" /\ UNCHANGED settled
          ELSE gPc' = "finally" /\ settled' = Throwing(BundlingError)
    /\ UNCHANGED <<options, project, tsCompiledDist, tempDirs, made, events,
                   codecVars, dynVars, fwdVars, revVars,
                   outVars, loadVars>>

\* one output of the bundle: lines 214-267; the tree-shaker gives code,
\* nothing at all, or errors alone
Output ==
    /\ gPc = "outputs" /\ Count(events, "fakeJsToDts") < MaxOutputs
    /\ \E treeshaked \in {"code", "nothing", "errors"} :
          /\ events' = events \o <<"fakeJsToDts", treeshaked>>
          /\ IF treeshaked = "errors"
             THEN gPc' = "finally" /\ settled' = Throwing(TreeshakeError)
             ELSE UNCHANGED <<gPc, settled>>
    /\ UNCHANGED <<options, project, tsCompiledDist, tempDirs, made,
                   codecVars, dynVars, fwdVars, revVars,
                   outVars, loadVars>>

\* return { files, errors }: lines 269-272
ReturnFiles ==
    /\ gPc = "outputs" /\ Count(events, "fakeJsToDts") > 0
    /\ gPc' = "finally"
    /\ UNCHANGED <<options, project, tsCompiledDist, tempDirs, made, events, settled,
                   codecVars, dynVars, fwdVars, revVars,
                   outVars, loadVars>>

\* finally: lines 273-277
Finally ==
    /\ gPc = "finally"
    /\ IF tsCompiledDist # Undefined
       THEN tempDirs' = tempDirs \ {tsCompiledDist} /\ events' = Append(events, "rm")
       ELSE UNCHANGED <<tempDirs, events>>
    /\ settled' = IF settled.error = "" THEN Resolved ELSE Rejected(settled.error)
    /\ gPc' = "settled"
    /\ UNCHANGED <<options, project, tsCompiledDist, made,
                   codecVars, dynVars, fwdVars, revVars,
                   outVars, loadVars>>

DrvNext ==
    \/ LoadTsConfig \/ ValidateEntrypoints \/ Build \/ Load \/ Bundled
    \/ Output \/ ReturnFiles \/ Finally

SpecDriver == DrvInit /\ [][DrvNext]_vars

----------------------------------------------------------------------------
(* Properties of the driver *)

Happened(event) == Count(events, event) > 0

\* No entrypoint is a TypeScript file that the globs found or that was given
\* by an absolute path.
NoneIsTypescript(entrypoints) ==
    ~ \E i \in 1..Len(entrypoints) :
          /\ entrypoints[i].typescript
          /\ entrypoints[i].absolute \/ entrypoints[i].exists

\* C18: with inferTypes set and no tsconfig file found, generateDts rejects
\* with the error that names the tsconfig.json it requires, and it does so
\* before the entrypoints are looked at, before a temp directory is made or
\* the checker is spawned, and before the bundler is called.
C18_InferTypesNeedsTsconfig ==
    (options.inferTypes /\ ~project.tsconfig /\ gPc \notin {"idle", "start"})
        => /\ gPc = "settled"
           /\ settled = Rejected(InferTypesError)
           /\ events = <<"loadTsConfig">>
           /\ tempDirs = {} /\ made = 0 /\ tsCompiledDist = Undefined

C18_Witness ==
    /\ options.inferTypes /\ ~project.tsconfig
    /\ NoneIsTypescript(project.entrypoints)
    /\ gPc = "settled" /\ settled = Rejected(InferTypesError)
    /\ ~Happened("getFilesFromGlobs")

C20_TempDirsRemoved ==
    (options.inferTypes /\ gPc = "settled") => tempDirs = {}

----------------------------------------------------------------------------
(* The loop of generateDts over the outputs of the bundle: part_002 lines   *)
(* 208-272                                                                  *)
(*                                                                          *)
(* An entrypoint is known by its place in the argument entrypoints. An      *)
(* output of the bundler carries its kind, the entrypoint it was built from *)
(* (0 for what is no entry point), and what the final isolatedDeclaration   *)
(* pass makes of its text: code, errors, both or neither.                   *)

BundlerOutput(kind, from, code, errors) ==
    [kind |-> kind, from |-> from, code |-> code, errors |-> errors]

NoEntrypoint == <<>>

\* result.outputs of a build of n entrypoints: one entry point for each,
\* chunks and assets in any number and order
BundlerOutputsOf(n) ==
    { outs \in UNION { [1..k -> [kind : {"entry-point", "chunk", "asset"}, from : 0..n,
                                 code : BOOLEAN, errors : BOOLEAN]] : k \in 0..MaxOutputs } :
        /\ \A i \in 1..Len(outs) : (outs[i].kind = "entry-point") = (outs[i].from > 0)
        /\ \A i, j \in 1..Len(outs) :
              (outs[i].from > 0 /\ outs[i].from = outs[j].from) => i = j
        /\ \A e \in 1..n : \E i \in 1..Len(outs) : outs[i].from = e }

\* result.outputs.filter(kind === 'chunk' || kind === 'entry-point')
ChunksAndEntryPoints(outs) ==
    SelectSeq(outs, LAMBDA output : output.kind \in {"chunk", "entry-point"})

\* entrypoints[bundledFiles.length], undefined beyond the end of the array
EntrypointAt(given, length) ==
    IF length + 1 <= Len(given) THEN <<given[length + 1]>> ELSE NoEntrypoint

\* The entry pushed for an output: kind, entrypoint and whether it has a
\* chunkFileName; place tells which output it is for.
DtsFile(output, given, files, place) ==
    [kind |-> IF output.kind = "entry-point" THEN "entry-point" ELSE "chunk",
     entrypoint |-> IF output.kind = "entry-point"
                    THEN EntrypointAt(given, Len(files))
                    ELSE NoEntrypoint,
     chunkFileName |-> output.kind = "chunk",
     output |-> place]

\* the test for continue with the test of the errors left out
TreeshakedToNothingIgnoringErrors(output) == ~output.code
\* !treeshakedDts.code.length && !treeshakedDts.errors.length
TreeshakedToNothing(output) == ~output.code /\ ~output.errors

\* treeshakedDts.errors.length && !treeshakedDts.code
TreeshakeFailed(output) == output.errors /\ ~output.code

OutInit ==
    /\ \E n \in 1..MaxEntrypoints :
          /\ userEntrypoints = [i \in 1..n |-> i]
          /\ \E outs \in BundlerOutputsOf(n) : outputs = ChunksAndEntryPoints(outs)
    /\ cursor = 0 /\ bundledFiles = <<>> /\ oPc = "loop"
    /\ CodecIdle /\ DynIdle /\ FwdIdle /\ RevIdle /\ DrvIdle /\ LoadIdle

\* one iteration of for (const output of outputs)
OutputStep ==
    /\ oPc = "loop" /\ cursor < Len(outputs)
    /\ cursor' = cursor + 1
    /\ IF TreeshakedToNothing(outputs[cursor + 1])
       THEN UNCHANGED <<bundledFiles, oPc>>
       ELSE IF TreeshakeFailed(outputs[cursor + 1])
       THEN oPc' = "thrown" /\ UNCHANGED bundledFiles
       ELSE /\ bundledFiles' = Append(bundledFiles,
                                      DtsFile(outputs[cursor + 1], userEntrypoints,
                                              bundledFiles, cursor + 1))
            /\ UNCHANGED oPc
    /\ UNCHANGED <<userEntrypoints, outputs, codecVars, dynVars, fwdVars, revVars,
                   drvVars, loadVars>>

\* return { files: bundledFiles, errors: collectedErrors }
OutputsReturn ==
    /\ oPc = "loop" /\ cursor = Len(outputs)
    /\ oPc' = "returned"
    /\ UNCHANGED <<userEntrypoints, outputs, cursor, bundledFiles, codecVars, dynVars,
                   fwdVars, revVars, drvVars, loadVars>>

OutNext == OutputStep \/ OutputsReturn

SpecOutputs == OutInit /\ [][OutNext]_vars

----------------------------------------------------------------------------
(* Properties of the loop over the outputs *)

FilesFor(i) == SelectSeq(bundledFiles, LAMBDA file : file.output = i)

\* C21: the outputs are gone through in their order; an output for which the
\* final pass gives no code and no errors adds no file and the loop goes on;
\* one for which it gives errors and no code makes generateDts throw; any
\* other adds exactly one file. So a build whose outputs all need no
\* declarations returns no files.
C21_TreeshakePolicy ==
    /\ \A i \in 1..cursor :
          /\ (~outputs[i].code /\ ~outputs[i].errors) => FilesFor(i) = <<>>
          /\ (~outputs[i].code /\ outputs[i].errors)
                => (FilesFor(i) = <<>> /\ oPc = "thrown" /\ cursor = i)
          /\ outputs[i].code => Len(FilesFor(i)) = 1
    /\ \A k \in 1..Len(bundledFiles) :
          /\ bundledFiles[k].output \in 1..cursor
          /\ \A j \in 1..(k - 1) : bundledFiles[j].output < bundledFiles[k].output
    /\ oPc = "thrown" => (cursor > 0 /\ ~outputs[cursor].code /\ outputs[cursor].errors)
    /\ oPc = "returned" => cursor = Len(outputs)

C21_Witness ==
    /\ oPc = "returned" /\ Len(outputs) = 2
    /\ ~outputs[1].code /\ ~outputs[1].errors
    /\ outputs[2].code /\ outputs[2].errors
    /\ Len(bundledFiles) = 1 /\ bundledFiles[1].output = 2

\* C29: every file of kind entry-point carries the entrypoint its output was
\* built from, and every file of kind chunk carries no entrypoint and has a
\* chunkFileName.
C29_EntrypointAttribution ==
    \A k \in 1..Len(bundledFiles) :
        IF bundledFiles[k].kind = "entry-point"
        THEN bundledFiles[k].entrypoint = <<outputs[bundledFiles[k].output].from>>
        ELSE bundledFiles[k].entrypoint = NoEntrypoint /\ bundledFiles[k].chunkFileName

----------------------------------------------------------------------------
(* The load hook of generateDts, invoked by the bundler for several files  *)
(* at a time: src/unnamed/part_002, lines 126-180. An invocation runs from *)
(* one await to the next without a break; dtsToFakeJs holds no await, so   *)
(* its body runs whole within the segment that calls it.                   *)

P_src == <<"src", "a.ts">>
P_dep == <<"node_modules", "m", "index.d.ts">>
Paths == {P_src, P_dep}

\* NODE_MODULES_RE of ./re: the path has a segment node_modules
NODE_MODULES_RE(path) == \E i \in 1..Len(path) : path[i] = "node_modules"

\* line 134 without the test: no path is taken as one of node_modules.
NoNodeModules(path) == FALSE

\* if (NODE_MODULES_RE.test(args.path)), line 134
IsNodeModules(path) == NODE_MODULES_RE(path)

NoText == ""
T_two == "export declare function fmt(a: string): string; declare const p: Promise<string>;"
T_bad == "declare const w: import('m')[0];"
Texts == {T_two, T_bad}

\* parse(dtsContent).program.body
Parsed(dtsContent) ==
    IF dtsContent = T_two THEN <<Overload1, PromiseConst>>
    ELSE IF dtsContent = T_bad THEN <<BadDynamicImportConst>>
    ELSE <<>>

MaxDiagnostics == 1

\* What is on disk and what the transformer gives for a path: the source
\* text, the code and the number of errors of isolatedDeclaration, and the
\* declaration file the checker has emitted; neither is the source text.
Contents ==
    { c \in [text : Texts, isolated : Texts \cup {NoText},
             diagnostics : 0..MaxDiagnostics, emitted : Texts] :
        c.text # c.isolated /\ c.text # c.emitted }

\* isolatedDeclaration(args.path, sourceText) of oxc-transform
isolatedDeclaration(path, sourceText) ==
    [code |-> sources[path].isolated,
     errors |-> [k \in 1..sources[path].diagnostics |-> k]]

EMPTY_EXPORT == [empty |-> TRUE, lines |-> <<>>]
FakeJs(lines) == [empty |-> FALSE, lines |-> lines]

\* convertDynamicImportToStatic throws for the token
ThrowsFor(importMatch) ==
    \/ ~importMatch.ok
    \/ importMatch.propertyAccess # <<>>
          /\ extractFirstProperty(importMatch.propertyAccess).threw

Throws(token) == StartsWith(token, S_importParen) /\ ThrowsFor(ImportMatch(token))

\* the cursor after the match whose expansion threw
ThrowPlace(matches, from) ==
    CHOOSE k \in (from + 1)..Len(matches) :
        Throws(matches[k]) /\ \A j \in (from + 1)..(k - 1) : ~Throws(matches[j])

\* TOKENIZE_RE.lastIndex when an iteration ends: as it was when nothing was
\* tokenised, 0 after exec has returned null, behind the match that threw
LastIndexAfter(done, last) ==
    IF ~done.tokenised THEN last
    ELSE IF done.threw THEN ThrowPlace(Tokenize(done.text), LastIndexReset(last))
    ELSE 0

\* dtsToFakeJs: the loop over parsed.program.body from the statement at i on
RECURSIVE LoopFrom(_, _, _, _, _, _, _)
LoopNext(statements, i, done, random, last) ==
    IF done.threw
    THEN [threw |-> TRUE, result |-> <<>>, lastIndex |-> LastIndexAfter(done, last)]
    ELSE LoopFrom(statements, i + 1, done.referencedNames, done.exportedNames,
                  done.result, random, LastIndexAfter(done, last))
LoopFrom(statements, i, names, exported, lines, random, last) ==
    IF i = Len(statements)
    THEN [threw |-> FALSE, result |-> lines, lastIndex |-> last]
    ELSE LoopNext(statements, i,
                  Iteration(statements[i + 1], i, names, exported, lines,
                            random[i + 1], last),
                  random, last)

\* dtsToFakeJs(dtsContent) with the sets and the array it makes anew, the
\* strings generateRandomString gives it, and the cursor it finds
dtsToFakeJs(dtsContent, random, last) ==
    LoopFrom(Parsed(dtsContent), 0, getAllImportNames(Parsed(dtsContent)), {}, <<>>,
             random, last)

DrawsFor(statements) ==
    { random \in [1..Len(statements) ->
                     UNION { RandomDraws(statements[i]) : i \in 1..Len(statements) }] :
        \A i \in 1..Len(statements) : random[i] \in RandomDraws(statements[i]) }

DrawsOf(dtsContent) == DrawsFor(Parsed(dtsContent))

\* The places the cursor of TOKENIZE_RE can be left at, and what
\* dtsToFakeJs gives for every text, every draw and every such place.
Cursors == 0..Len(Tokenize(BadDynamicImportConst.text))

Invocations ==
    { [dtsContent |-> key[1][1], random |-> key[1][2], last |-> key[2],
       gives |-> dtsToFakeJs(key[1][1], key[1][2], key[2])] :
        key \in UNION { ({dtsContent} \X DrawsOf(dtsContent)) \X Cursors :
                          dtsContent \in Texts \cup {NoText} } }

Invoked(dtsContent, random, last) ==
    (CHOOSE invocation \in Invocations :
        /\ invocation.dtsContent = dtsContent
        /\ invocation.random = random
        /\ invocation.last = last).gives

Called(path) ==
    [path |-> path, pc |-> "sourceText", sourceText |-> NoText,
     declaration |-> NoText, consulted |-> {}, diagnostics |-> 0, recorded |-> 0,
     random |-> <<>>, left |-> 0, cursor |-> 0]

\* fakeJsContent of an invocation that has passed lines 169-173: the empty
\* export, or what dtsToFakeJs gave for the declaration, the draws and the
\* cursor the invocation found
ContentsOf(invocation) ==
    IF invocation.declaration = NoText THEN EMPTY_EXPORT
    ELSE FakeJs(Invoked(invocation.declaration, invocation.random, invocation.left).result)

\* collectedErrors.some((e) => e.file === args.path), not looked at
SomeErrorOfIgnored(errors, path) == FALSE

\* collectedErrors.some((e) => e.file === args.path)
SomeErrorOf(errors, path) == \E k \in 1..Len(errors) : errors[k].file = path

\* lines 159-167 without the loop: nothing is pushed.
CollectNothing(errors, path, sourceText, found) == errors

\* lines 159-167
Collect(errors, path, sourceText, found) ==
    IF SomeErrorOf(errors, path) THEN errors
    ELSE errors \o [k \in 1..Len(found) |->
                      [error |-> found[k], file |-> path, content |-> sourceText]]

LoadInit ==
    /\ sources \in [Paths -> Contents]
    /\ calls = <<>> /\ collectedErrors = <<>> /\ lastIndex = 0
    /\ \E inferTypes \in BOOLEAN :
         /\ options = [inferTypes |-> inferTypes, tsgo |-> FALSE]
         /\ tsCompiledDist = IF inferTypes THEN TempDir(1) ELSE Undefined
         /\ tempDirs = IF inferTypes THEN {TempDir(1)} ELSE {}
         /\ made = IF inferTypes THEN 1 ELSE 0
    /\ project = <<>> /\ events = <<>> /\ gPc = "bundling" /\ settled = Pending
    /\ CodecIdle /\ DynIdle /\ FwdIdle /\ RevIdle /\ OutIdle

LoadFrame ==
    UNCHANGED <<sources, codecVars, dynVars, fwdVars, revVars, drvVars, outVars>>

\* the bundler calls the hook: up to the await of Bun.file(args.path).text()
OnLoad ==
    /\ Len(calls) < MaxLoads
    /\ \E path \in Paths : calls' = Append(calls, Called(path))
    /\ UNCHANGED <<collectedErrors, lastIndex>>
    /\ LoadFrame

\* lines 159-175, from the declaration to the await of dtsToFakeJs or, for
\* an empty declaration, to the return
Transformed(c, sourceText, declaration, consulted, found, random, transformed, collected) ==
        /\ collectedErrors' = collected
        /\ lastIndex' = IF declaration # NoText THEN transformed.lastIndex ELSE lastIndex
        /\ calls' = [calls EXCEPT ![c] =
              [@ EXCEPT !.sourceText = sourceText,
                        !.declaration = declaration,
                        !.consulted = consulted,
                        !.diagnostics = Len(found),
                        !.recorded = Len(collected) - Len(collectedErrors),
                        !.random = random,
                        !.left = lastIndex,
                        !.cursor = LastIndexReset(lastIndex),
                        !.pc = IF declaration = NoText THEN "returned"
                               ELSE IF transformed.threw THEN "thrown"
                               ELSE "dtsToFakeJs"]]

Transform(c, sourceText, declaration, consulted, found, random) ==
    Transformed(c, sourceText, declaration, consulted, found, random,
                Invoked(declaration, random, lastIndex),
                Collect(collectedErrors, calls[c].path, sourceText, found))

\* the source text is there: lines 129-157, and on if nothing is awaited
SourceTextOf(c, path, sourceText, isolatedDeclarationResult) ==
    IF IsNodeModules(path)
    THEN \E random \in DrawsOf(sourceText) :
             Transform(c, sourceText, sourceText, {}, <<>>, random)
    ELSE IF options.inferTypes /\ tsCompiledDist # Undefined
    THEN /\ calls' = [calls EXCEPT ![c] =
               [@ EXCEPT !.sourceText = sourceText, !.pc = "declaration"]]
         /\ UNCHANGED <<collectedErrors, lastIndex>>
    ELSE \E random \in DrawsOf(isolatedDeclarationResult.code) :
             Transform(c, sourceText, isolatedDeclarationResult.code,
                       {"isolatedDeclaration"}, isolatedDeclarationResult.errors,
                       random)

SourceText(c) ==
    /\ calls[c].pc = "sourceText"
    /\ SourceTextOf(c, calls[c].path, sources[calls[c].path].text,
                    isolatedDeclaration(calls[c].path, sources[calls[c].path].text))
    /\ LoadFrame

\* the declaration file of the temp directory is there: line 144 and on
DeclarationText(c) ==
    /\ calls[c].pc = "declaration"
    /\ \E random \in DrawsOf(sources[calls[c].path].emitted) :
         Transform(c, calls[c].sourceText, sources[calls[c].path].emitted,
                   {"tsCompiledDist"}, <<>>, random)
    /\ LoadFrame

\* the promise of dtsToFakeJs is settled: the return of lines 175-178
ReturnContents(c) ==
    /\ calls[c].pc = "dtsToFakeJs"
    /\ calls' = [calls EXCEPT ![c] = [@ EXCEPT !.pc = "returned"]]
    /\ UNCHANGED <<collectedErrors, lastIndex>>
    /\ LoadFrame

Resume ==
    \E c \in 1..Len(calls) : SourceText(c) \/ DeclarationText(c) \/ ReturnContents(c)

LoadNext == OnLoad \/ Resume

SpecLoads == LoadInit /\ [][LoadNext]_vars

----------------------------------------------------------------------------
(* Properties of the load hook *)

\* the invocation has passed lines 159-175
Transformed_(c) == calls[c].pc \in {"dtsToFakeJs", "returned", "thrown"}

ErrorsOf(path) == SelectSeq(collectedErrors, LAMBDA e : e.file = path)

Alone(c) == Invoked(calls[c].declaration, calls[c].random, 0)

\* C22: diagnostics of isolatedDeclaration do not end the hook: whatever
\* their number, the declaration is transformed, or the empty export put in
\* its place when it is empty, the hook throws only where dtsToFakeJs throws
\* for that declaration, and every diagnostic of the file stands in
\* collectedErrors under the file's path.
C22_DiagnosticsKeepLoading ==
    \A c \in 1..Len(calls) :
        (Transformed_(c) /\ calls[c].consulted = {"isolatedDeclaration"}) =>
            /\ calls[c].declaration = sources[calls[c].path].isolated
            /\ calls[c].diagnostics = sources[calls[c].path].diagnostics
            /\ IF calls[c].declaration = NoText
               THEN calls[c].pc = "returned" /\ ContentsOf(calls[c]) = EMPTY_EXPORT
               ELSE IF Alone(c).threw THEN calls[c].pc = "thrown"
               ELSE /\ calls[c].pc # "thrown"
                    /\ ContentsOf(calls[c]) = FakeJs(Alone(c).result)
            /\ \A k \in 1..calls[c].diagnostics :
                 \E e \in 1..Len(collectedErrors) :
                    /\ collectedErrors[e].file = calls[c].path
                    /\ collectedErrors[e].error = k
                    /\ collectedErrors[e].content = calls[c].sourceText

C22_Witness ==
    \E c \in 1..Len(calls) :
        /\ calls[c].pc = "returned"
        /\ calls[c].consulted = {"isolatedDeclaration"}
        /\ calls[c].diagnostics > 0 /\ calls[c].recorded = calls[c].diagnostics
        /\ ContentsOf(calls[c]).lines # <<>>
        /\ ErrorsOf(calls[c].path) # <<>>

\* C23: for a path of node_modules the declaration handed to dtsToFakeJs is
\* the source text as read, with inferTypes or without; isolatedDeclaration
\* and the declaration files of the checker are not consulted, and no entry
\* of collectedErrors carries the path.
C23_NodeModulesBypass ==
    \A c \in 1..Len(calls) :
        (Transformed_(c) /\ \E i \in 1..Len(calls[c].path) : calls[c].path[i] = "node_modules") =>
            /\ calls[c].declaration = sources[calls[c].path].text
            /\ calls[c].sourceText = sources[calls[c].path].text
            /\ calls[c].consulted = {}
            /\ calls[c].recorded = 0
            /\ ErrorsOf(calls[c].path) = <<>>
            /\ (calls[c].pc # "thrown" => ContentsOf(calls[c]) = FakeJs(Alone(c).result))

C23_Witness ==
    \E c, d \in 1..Len(calls) :
        /\ options.inferTypes /\ tsCompiledDist # Undefined
        /\ calls[c].path = P_dep /\ calls[c].pc = "returned"
        /\ sources[P_dep].diagnostics > 0
        /\ calls[c].declaration = sources[P_dep].text
        /\ calls[d].path = P_src /\ calls[d].consulted = {"tsCompiledDist"}

RECURSIVE Recorded(_, _)
Recorded(invocations, path) ==
    IF invocations = <<>> THEN 0
    ELSE (IF Head(invocations).path = path THEN Head(invocations).recorded ELSE 0)
            + Recorded(Tail(invocations), path)

\* C30: however the invocations of the hook interleave, and when a path is
\* loaded more than once, the entries of collectedErrors with a path are the
\* diagnostics of one invocation: at most one invocation of a path has
\* pushed, and no diagnostic stands twice.
C30_DiagnosticsOnce ==
    \A path \in Paths :
        /\ Cardinality({ c \in 1..Len(calls) :
                           calls[c].path = path /\ calls[c].recorded > 0 }) <= 1
        /\ Len(ErrorsOf(path)) = Recorded(calls, path)
        /\ \A e, f \in 1..Len(ErrorsOf(path)) :
              ErrorsOf(path)[e].error = ErrorsOf(path)[f].error => e = f

C30_Witness ==
    \E c, d \in 1..Len(calls) :
        /\ c # d /\ calls[c].path = calls[d].path
        /\ calls[c].pc = "returned" /\ calls[d].pc = "returned"
        /\ calls[c].diagnostics > 0 /\ calls[d].diagnostics > 0
        /\ calls[c].recorded > 0 /\ calls[d].recorded = 0
        /\ Len(ErrorsOf(calls[c].path)) = calls[c].diagnostics

----------------------------------------------------------------------------
(* The checker and the load hook *)

Before(history, first, then) ==
    \A i \in 1..Len(history) :
        history[i] = then => \E j \in 1..(i - 1) : history[j] = first

\* C27: with inferTypes, a load that reads a declaration file of the temp
\* directory comes after the checker has exited with code 0; when the
\* checker exits with another code no hook runs, nothing is read from the
\* temp directory and generateDts rejects.
C27_CheckerBeforeLoad ==
    /\ Before(events, "exited 0", "read tsCompiledDist")
    /\ Happened("exited 1") =>
          /\ ~Happened("read tsCompiledDist")
          /\ ~Happened("onLoad") /\ ~Happened("onLoad failed")
          /\ settled.state # "resolved"
          /\ gPc \in {"finally", "settled"}

C27_Witness ==
    /\ options.inferTypes
    /\ Happened("exited 0") /\ Happened("read tsCompiledDist")
    /\ settled = Resolved

----------------------------------------------------------------------------
(* Export syntax and attached comments *)

\* the text of the statement as the loop holds it before the comments are
\* attached
OwnText(statement, i) ==
    IF /\ hasDefaultExportModifier(statement, statement.text)
       /\ isUnnamedDefaultExport(statement)
    THEN assignNameToUnnamedDefaultExport(statement.text,
                                          JsVarName(getName(statement), i))
    ELSE statement.text

\* the text without the export or export default it starts with
WithoutOwnPrefix(text) ==
    IF /\ Len(text) >= 4 /\ text[1] = W_export /\ IsSpaceUnit(text[2])
       /\ text[3] = W_default /\ IsSpaceUnit(text[4])
    THEN DropFirst(text, 4)
    ELSE IF Len(text) >= 2 /\ text[1] = W_export /\ IsSpaceUnit(text[2])
    THEN DropFirst(text, 2)
    ELSE text

CommentedExports ==
    { k \in 1..Len(prepared) :
        /\ body[prepared[k].index + 1].leadingComments # <<>>
        /\ hasExportModifier(body[prepared[k].index + 1],
                             OwnText(body[prepared[k].index + 1], prepared[k].index)) }

----------------------------------------------------------------------------
(* Template literals in token arrays *)

\* a variable statement whose array holds one template literal without
\* expressions
IsPlainTemplateArray(statement) ==
    /\ statement.type = "VariableDeclaration"
    /\ Len(statement.declarations) = 1
    /\ statement.declarations[1].init.type = "ArrayExpression"
    /\ Len(statement.declarations[1].init.elements) = 1
    /\ IsTemplateLiteral(statement.declarations[1].init.elements[1])
    /\ TemplateLiteral(statement.declarations[1].init.elements[1]).expressions = <<>>

\* the string literal with the value of the template literal
StringLiteralOf(element) == JsonStringify(Cooked(TemplateLiteral(element).quasis[1]))

\* C26: a template literal without expressions gives the text that the
\* string literal with the same value gives.
C26_TemplateLiteralAsStringLiteral ==
    \A i \in 1..at :
        IsPlainTemplateArray(program[i]) =>
            PartsFor(i) = << Part(i, "tokens",
                processTokenElement(
                    StringLiteralOf(program[i].declarations[1].init.elements[1]))) >>

----------------------------------------------------------------------------
(* Reference edges *)

\* the names the top-level statements of the file declare
DeclaredNames == { getName(body[i]) : i \in 1..Len(body) } \ {NoId}

\* C28: a token that is the declared name of a top-level statement of the
\* file stands in the array as a bare identifier, whether the statement that
\* declares it comes before or after.
C28_DeclaredNamesAreBare ==
    pc = "done" =>
        \A k \in 1..Len(prepared) :
            \A j \in 1..Len(Tokenize(prepared[k].text)) :
                Tokenize(prepared[k].text)[j] \in DeclaredNames =>
                    VarLines[k].tokens[j] = Tokenize(prepared[k].text)[j]

====
